---------------------------- MODULE Spec2Model ----------------------------
(***************************************************************************)
(* Route generation and walk saving of woof-woof-walkies.                  *)
(*                                                                         *)
(* The server actions generateCustomRouteAction and saveGeneratedWalkAction*)
(* (recommendations/actions.ts) and the pipeline generateCustomRoute       *)
(* (lib/ai/openai.ts) are modelled as one request running through its      *)
(* await points.  The collaborators (auth, geocoder, places search, the    *)
(* language model, directions, the walks store) are the environment: each  *)
(* answer is drawn from a bounded set of results and thrown errors.        *)
(*                                                                         *)
(* Text is a sequence of strings.  Location text is a sequence of          *)
(* one-character strings; an error message is a sequence of fragments, so  *)
(* that String.includes is membership of a fragment and concatenation is   *)
(* \o.                                                                     *)
(*                                                                         *)
(* Further specifications share the module: ConversionSpec calls the      *)
(* functions of lib/utils/walkConversion.ts on their own, SelectionSpec    *)
(* the steps of the waypoint selection, ClientSpec is the component        *)
(* RecommendationsClient and ListSpec the component WalksList, each with   *)
(* the server actions it awaits as its environment, ConcurrentSpec runs    *)
(* several invocations of generateCustomRoute at once, and LiveSpec is     *)
(* Spec with every awaited call answered.  A specification leaves the      *)
(* variables of the others as they start.                                  *)
(***************************************************************************)
EXTENDS Integers, Sequences, FiniteSets, TLC

VARIABLES
    env,            \* process.env: AI_RECOMMENDATIONS_ENABLED, OPENAI_API_KEY
    op,             \* the server action this request runs
    pc,             \* the await the request is suspended at
    location,       \* argument `location`
    preferences,    \* argument `preferences`
    saveArg,        \* argument `route` of saveGeneratedWalkAction
    user,           \* data.user of supabase.auth.getUser()
    geocodeResult,  \* const geocodeResult (generateCustomRoute)
    pois,           \* const pois.all (generateCustomRoute)
    shuffledPOIs,   \* const shuffledPOIs (generateWaypointsWithAI)
    reply,          \* the shape of the completion the language model returned
    aiWaypoints,    \* const aiWaypoints (generateCustomRoute)
    inserted,       \* walkData handed to supabase.from('walks').insert
    calls,          \* how often each collaborator was invoked by this request
    trail,          \* the collaborators in the order this request invoked them
    caught,         \* what the failing stage threw, and which stage it was
    outcome,        \* what the action returned or threw
    call,           \* a call of a walkConversion function: arguments and result
    \* RecommendationsClient: its useState values, and what is in flight
    mode,           \* 'basic' | 'custom'
    recommendations,\* recommendations.length
    customRoute,    \* the route held (0 is null); routes are named by number
    lastFormData,   \* the form data submitted last (0 is null)
    isPending,      \* of useTransition
    isSaving,
    isSaved,
    requests,       \* the server actions awaited, oldest first
    generated,      \* how many routes generateCustomRouteAction has returned
    savedRoutes,    \* the routes whose save succeeded
    lastSave,       \* the save that completed last, and how
    lastGeneration, \* the generation that completed last, and what it returned
    \* WalksList
    walks,          \* useState(initialWalks): the ids of the walks, in order
    deletes,        \* the onDelete calls awaited, each with the `walks` of its render
    optimisticIds,  \* the walk ids of the optimistic updates still applied
    entangled,      \* whether React holds the optimistic updates of overlapping
                    \* transitions until all of them have finished
    lastDelete,     \* the delete that completed last, and how
    removedAlone,   \* walks whose delete succeeded with no other delete in flight
    removed,        \* walks whose delete succeeded
    rejected,       \* whether onDelete has rejected a delete
    \* generateCustomRoute called by several requests at once
    frames,         \* the consts of each invocation of generateCustomRoute
    running,        \* each request: its await, what it was answered, its outcome
    selection       \* a call of a step of the waypoint selection: input and result

serverVars == <<env, op, pc, location, preferences, saveArg, user, geocodeResult,
                pois, shuffledPOIs, reply, aiWaypoints, inserted, calls, trail,
                caught, outcome>>

clientVars == <<mode, recommendations, customRoute, lastFormData, isPending,
                isSaving, isSaved, requests, generated, savedRoutes, lastSave,
                lastGeneration>>

listVars == <<walks, deletes, optimisticIds, entangled, lastDelete, removedAlone,
              removed, rejected>>

concVars == <<frames, running>>

vars == <<serverVars, call, clientVars, listVars, concVars, selection>>

-----------------------------------------------------------------------------
(* Bounds of the model                                                     *)

MaxLocLen == 2          \* longest location text submitted
MaxReplyLen == 7        \* longest waypoint list the language model returns
MaxTenths == 70         \* largest distance, in tenths of a km, classified on its own
MaxSeconds == 150       \* largest small duration, in seconds, converted on its own
MaxTextLen == 4         \* longest distance text parsed on its own
MaxRoutes == 3          \* routes generated for one RecommendationsClient
MaxForms == 2           \* different form data submitted to one RecommendationsClient
MaxWalks == 3           \* walks handed to one WalksList
MaxRequests == 2        \* invocations of generateCustomRoute running at once
MaxShuffled == 4        \* longest list shuffled with every sequence of draws
MaxCandidates == 22     \* most places a search hands to the waypoint selection

-----------------------------------------------------------------------------
(* Generic helpers                                                         *)

Range(s) == {s[i] : i \in 1..Len(s)}

Includes(text, fragment) == fragment \in Range(text)

\* text contains part as a contiguous run of fragments
Contains(text, part) ==
    \E i \in 0..(Len(text) - Len(part)) :
        \A j \in 1..Len(part) : text[i + j] = part[j]

SeqsUpTo(S, n) == UNION {[1..k -> S] : k \in 0..n}

Max(a, b) == IF a >= b THEN a ELSE b

RECURSIVE Pow(_, _)
Pow(b, e) == IF e = 0 THEN 1 ELSE b * Pow(b, e - 1)

-----------------------------------------------------------------------------
(* Number.prototype.toFixed on a decimal value k / 10^d.                   *)
(*                                                                         *)
(* The value the program holds is the IEEE-754 double nearest to k / 10^d  *)
(* (a correctly rounded division, or a parsed decimal literal).  toFixed(f)*)
(* picks the integer n with n / 10^f closest to that double, the larger n  *)
(* on a tie.  Away from a decimal tie the double's error cannot change n;  *)
(* on a decimal tie n goes up exactly when the double is not below         *)
(* k / 10^d, which the remainder of the mantissa division decides.         *)

\* x doubled s times modulo m
RECURSIVE DoubleMod(_, _, _)
DoubleMod(x, s, m) == IF s = 0 THEN x % m ELSE DoubleMod((2 * x) % m, s - 1, m)

\* the largest t >= 0 with m * 2^t <= k   (k >= m)
RECURSIVE Log2Up(_, _, _)
Log2Up(k, m, t) == IF 2 * m <= k THEN Log2Up(k, 2 * m, t + 1) ELSE t

\* the least u >= 0 with k * 2^u >= m     (0 < k < m)
RECURSIVE Log2Down(_, _, _)
Log2Down(k, m, u) == IF k >= m THEN u ELSE Log2Down(2 * k, m, u + 1)

\* the double nearest to k / 10^d is >= k / 10^d
DoubleNotBelow(k, d) ==
    LET m == Pow(5, d)
        s == IF k >= m THEN 52 - Log2Up(k, m, 0) ELSE 52 + Log2Down(k, m, 0)
        rem == DoubleMod(k % m, s, m)
    IN  rem = 0 \/ 2 * rem > m

\* n of (k / 10^d).toFixed(f), for k >= 0 and f <= d
ToFixedNat(k, d, f) ==
    LET unit == Pow(10, d - f)
    IN  IF unit = 1 THEN k
        ELSE IF k % unit # unit \div 2 THEN (k + unit \div 2) \div unit
        ELSE IF k = 0 THEN 0
        ELSE (k \div unit) + (IF DoubleNotBelow(k, d) THEN 1 ELSE 0)

\* decimal digits of a natural number, as one-character strings
DigitChar(n) == CASE n = 0 -> "0" [] n = 1 -> "1" [] n = 2 -> "2" [] n = 3 -> "3"
                  [] n = 4 -> "4" [] n = 5 -> "5" [] n = 6 -> "6" [] n = 7 -> "7"
                  [] n = 8 -> "8" [] n = 9 -> "9"

RECURSIVE Digits(_)
Digits(n) == IF n < 10 THEN <<DigitChar(n)>>
             ELSE Append(Digits(n \div 10), DigitChar(n % 10))

DigitValue(c) == CHOOSE n \in 0..9 : DigitChar(n) = c

\* the natural number a run of digits writes; 0 for the empty run
RECURSIVE NatOf(_)
NatOf(digits) == IF digits = <<>> THEN 0
                 ELSE 10 * NatOf(SubSeq(digits, 1, Len(digits) - 1))
                        + DigitValue(digits[Len(digits)])

\* the fraction digits of n, padded to f places
RECURSIVE FracDigits(_, _)
FracDigits(n, f) == IF f = 0 THEN <<>>
                    ELSE Append(FracDigits(n \div 10, f - 1), DigitChar(n % 10))

\* the text of (k / 10^d).toFixed(f), f >= 1; "-" is kept for a negative
\* value even when it rounds to zero, as toFixed does
ToFixed(k, d, f) ==
    LET a == IF k < 0 THEN -k ELSE k
        n == ToFixedNat(a, d, f)
        p == Pow(10, f)
    IN  (IF k < 0 THEN <<"-">> ELSE <<>>)
            \o Digits(n \div p) \o <<".">> \o FracDigits(n % p, f)

-----------------------------------------------------------------------------
(* Values                                                                  *)

Undefined == "<undefined>"          \* an absent string field
UndefinedName == <<Undefined>>      \* an absent name (names are word lists)
NoNumber == <<>>                    \* an absent number field
Num(n) == <<n>>                     \* a present number field

NoUser == "<null>"
Users == {"user-123"}

\* values of AI_RECOMMENDATIONS_ENABLED and OPENAI_API_KEY
FlagValues == {"true", "false", "1"}
ApiKeyValues == {"sk-test", ""}

\* location text, one character per element
LocationChars == {" ", "a"}
Locations == SeqsUpTo(LocationChars, MaxLocLen)

MinDistanceKm == 1
MaxDistanceKm == 10

\* preferences.distance in tenths of a kilometre
PrefDistances == {9, 10, 25, 100, 101}

PreferenceOptions ==
    { [mustInclude |-> {}, preferences |-> {}],
      [mustInclude |-> {"cafe"}, preferences |-> {"off-leash", "scenic"}] }

AllPreferences ==
    { [distance |-> d, mustInclude |-> o.mustInclude,
       preferences |-> o.preferences, circular |-> c] :
        d \in PrefDistances, o \in PreferenceOptions, c \in BOOLEAN }

\* coordinates are counted in units of 1e-7 degree
Origin == [lat |-> 20, lng |-> 30]

GeocodeResults ==
    { [coordinates |-> Origin, formattedAddress |-> <<"Bradford on Avon, UK">>] }

P1 == [placeId |-> "ChIJ-1", name |-> <<"Victory", "Field">>,
       location |-> [lat |-> 14, lng |-> 26]]
P2 == [placeId |-> "ChIJ-2", name |-> <<"Lock", "Inn", "Cafe">>,
       location |-> [lat |-> 50, lng |-> 60]]
P3 == [placeId |-> "ChIJ-3", name |-> <<"Barton", "Farm">>,
       location |-> [lat |-> 14, lng |-> 26]]

\* what the places search can find: up to two distinct places, or nothing
CandidateLists ==
    {<<>>} \cup {<<p>> : p \in {P1, P2, P3}}
           \cup {pq \in {P1, P2, P3} \X {P1, P2, P3} : pq[1] # pq[2]}

\* thrown values: an Error with a message, or something that is no Error
Err(m) == [isError |-> TRUE, message |-> m]
NonError == [isError |-> FALSE, message |-> <<>>]

UpstreamFragments ==
    {"not found", "Geocoding", "No places found", "AI service", "ECONNRESET"}

\* upstream messages of one or two fragments
UpstreamMessages ==
    {<<f>> : f \in UpstreamFragments} \cup (UpstreamFragments \X UpstreamFragments)

UpstreamErrors == {Err(m) : m \in UpstreamMessages} \cup {NonError}

\* error.message of a failed insert
StoreMessages == {<<"Database connection failed">>, <<"duplicate key value">>}

\* waypoints the language model may put in its reply
Wp(lat, lng, name, type, category, placeId) ==
    [lat |-> lat, lng |-> lng, name |-> name, type |-> type,
     category |-> category, placeId |-> placeId]

StartWp == Wp(Num(20), Num(30), <<"Start">>, "start", Undefined, Undefined)
StartNoLat == Wp(NoNumber, Num(30), <<"Start">>, "start", Undefined, Undefined)
EndWp == Wp(Num(20), Num(30), <<"End">>, "end", Undefined, Undefined)
EndElsewhere == Wp(Num(70), Num(80), <<"End">>, "end", Undefined, Undefined)
PoiWithId == Wp(Num(50), Num(60), <<"Lock", "Inn", "Cafe">>, "poi", "cafe", "ChIJ-2")
PoiNoIdMatch == Wp(Num(13), Num(27), <<"Victory", "Field">>, "poi", "park", Undefined)
PoiNoIdNoMatch == Wp(Num(40), Num(40), <<"Tithe", "Barn">>, "poi", "other", Undefined)
PoiNoLat == Wp(NoNumber, Num(60), <<"Canal", "Path">>, "poi", "water", Undefined)
PoiNoName == Wp(Num(50), Num(60), UndefinedName, "poi", "cafe", "ChIJ-2")

FirstWaypoints == {StartWp, StartNoLat}
LastWaypoints == {EndWp, EndElsewhere}
MiddleWaypoints == {PoiWithId, PoiNoIdMatch, PoiNoIdNoMatch, PoiNoLat, PoiNoName}

ReplyList(n, f, m, l) ==
    [i \in 1..n |-> IF i = 1 THEN f ELSE IF i = n THEN l ELSE m]

WaypointLists ==
    {<<>>} \cup {<<f>> : f \in FirstWaypoints}
           \cup {<<f, l>> : f \in FirstWaypoints, l \in LastWaypoints}
           \cup { ReplyList(n, f, m, l) :
                    n \in 3..MaxReplyLen, f \in FirstWaypoints,
                    m \in MiddleWaypoints, l \in LastWaypoints }

\* message.content of the completion: nothing, text that is no JSON, JSON
\* without a waypoints member, or JSON with one
Contents ==
    { [text |-> t, waypoints |-> <<>>] : t \in {"empty", "garbage", "no-waypoints"} }
        \cup { [text |-> "json", waypoints |-> w] : w \in WaypointLists }

\* what getWalkingDirections answers: metres and seconds
DirectionsResults ==
    { [distance |-> 0, duration |-> Num(0)],
      [distance |-> 2050, duration |-> Num(1800)],
      [distance |-> 2250, duration |-> Num(1850)],
      [distance |-> 9960, duration |-> Num(7200)] }

NoDirections == [distance |-> 0, duration |-> NoNumber]

Route(name, waypoints, label, highlights, hasDirections, directions) ==
    [routeName |-> name, waypoints |-> waypoints, estimatedDistance |-> label,
     highlights |-> highlights, hasDirections |-> hasDirections,
     directions |-> directions]

NoRoute == Route(<<>>, <<>>, <<>>, <<>>, FALSE, NoDirections)
NoGeocode == [coordinates |-> [lat |-> 0, lng |-> 0], formattedAddress |-> <<>>]
\* a decimal number: (-1)^neg * n / 10^e
Dec(neg, n, e) == [neg |-> neg, n |-> n, e |-> e]
Zero == Dec(FALSE, 0, 0)

NoWalkData == [name |-> <<>>, distance_km |-> Zero, duration_minutes |-> 0,
               difficulty |-> "easy", notes |-> <<>>, user_id |-> NoUser]
NoWalk == [data |-> NoWalkData, id |-> ""]
NoPreferences == [distance |-> 0, mustInclude |-> {}, preferences |-> {}, circular |-> TRUE]
NoReply == [received |-> FALSE, parsed |-> FALSE, count |-> 0, complete |-> FALSE]

ZeroCalls == [auth |-> 0, geocode |-> 0, places |-> 0, openai |-> 0,
              directions |-> 0, insert |-> 0]

NoCaught == [stage |-> "none", origin |-> "none", error |-> NonError]
Caught(stage, origin, error) == [stage |-> stage, origin |-> origin, error |-> error]

Pending == [kind |-> "none", message |-> <<>>, route |-> NoRoute, walk |-> NoWalk]
Threw(m) == [kind |-> "error", message |-> m, route |-> NoRoute, walk |-> NoWalk]
ReturnedRoute(r) == [kind |-> "route", message |-> <<>>, route |-> r, walk |-> NoWalk]
ReturnedWalk(w) == [kind |-> "walk", message |-> <<>>, route |-> NoRoute, walk |-> w]

-----------------------------------------------------------------------------
(* Text helpers of the program                                             *)

\* String.prototype.trim
RECURSIVE TrimStart(_)
TrimStart(s) == IF s # <<>> /\ Head(s) = " " THEN TrimStart(Tail(s)) ELSE s

RECURSIVE TrimEnd(_)
TrimEnd(s) == IF s # <<>> /\ s[Len(s)] = " "
              THEN TrimEnd(SubSeq(s, 1, Len(s) - 1)) ELSE s

Trim(s) == TrimEnd(TrimStart(s))

\* Array.prototype.join
RECURSIVE Join(_, _)
Join(parts, sep) ==
    IF parts = <<>> THEN <<>>
    ELSE IF Len(parts) = 1 THEN parts[1]
    ELSE parts[1] \o sep \o Join(Tail(parts), sep)

\* `${n}` of a number held in tenths: 2 is "2", 2.5 is "2.5"
NumberText(t) ==
    Digits(t \div 10) \o (IF t % 10 = 0 THEN <<>> ELSE <<".", DigitChar(t % 10)>>)

Truthy(str) == str # Undefined /\ str # ""

-----------------------------------------------------------------------------
(* Messages of the program                                                 *)

MsgFeatureDisabled ==
    <<"AI route generation is currently unavailable. Please try again later.">>
MsgLoginGenerate == <<"You must be logged in to generate custom routes.">>
MsgEnterLocation == <<"Please enter a location.">>
MsgValidLocation == <<"Please enter a valid location.">>
MsgDistanceRange == <<"Distance must be between 1 and 10 kilometers.">>
MsgCouldNotFind(loc) ==
    <<"Could not find location: ">> \o loc \o <<". Please try a more specific address.">>
MsgNoSuitable ==
    <<"No suitable walking locations found nearby. Try a different area.">>
MsgFailedRoute == <<"Failed to generate custom route. Please try again.">>
MsgNoApiKey == <<"OPENAI_API_KEY environment variable is not set">>
MsgNoResponse == <<"No response from ", "AI service">>
MsgInvalidWaypoints == <<"AI generated invalid waypoints">>
MsgLoginSave == <<"You must be logged in to save walks">>
MsgSaveFailed(m) == <<"Failed to save walk: ">> \o m

\* messages of the runtime: JSON.parse on text that is no JSON, and a method
\* call on undefined
MsgSyntaxError == <<"Unexpected token in ", "JSON">>
MsgTypeError == <<"Cannot read properties of undefined">>

\* the message findAllDogWalkingPOIs fails with when the search finds nothing
MsgNoPlaces == <<"No places found">>

-----------------------------------------------------------------------------
(* generateCustomRouteAction: the gates                                    *)

FeatureEnabledLax(e) == e.AI_RECOMMENDATIONS_ENABLED # "false"

FeatureEnabled(e) == e.AI_RECOMMENDATIONS_ENABLED = "true"

ValidationErrorNoLowerBound(loc, prefs) ==
    IF loc = <<>> \/ Len(Trim(loc)) = 0 THEN MsgEnterLocation
    ELSE IF Len(Trim(loc)) < 2 THEN MsgValidLocation
    ELSE IF prefs.distance > 10 * MaxDistanceKm THEN MsgDistanceRange
    ELSE <<>>

\* the message the validation throws, <<>> when the input is valid
ValidationError(loc, prefs) ==
    IF loc = <<>> \/ Len(Trim(loc)) = 0 THEN MsgEnterLocation
    ELSE IF Len(Trim(loc)) < 2 THEN MsgValidLocation
    ELSE IF prefs.distance < 10 * MinDistanceKm \/ prefs.distance > 10 * MaxDistanceKm
         THEN MsgDistanceRange
    ELSE <<>>

-----------------------------------------------------------------------------
(* generateCustomRoute: the catch block                                    *)

generateCustomRouteCatchNoPlacesBranch(error, loc) ==
    IF error.isError /\ (Includes(error.message, "not found")
                            \/ Includes(error.message, "Geocoding"))
        THEN Threw(MsgCouldNotFind(loc))
    ELSE IF error.isError /\ Includes(error.message, "AI service")
        THEN Threw(error.message)
    ELSE Threw(MsgFailedRoute)

\* what generateCustomRoute throws for a value thrown inside its try block
generateCustomRouteCatch(error, loc) ==
    IF error.isError /\ (Includes(error.message, "not found")
                            \/ Includes(error.message, "Geocoding"))
        THEN Threw(MsgCouldNotFind(loc))
    ELSE IF error.isError /\ Includes(error.message, "No places found")
        THEN Threw(MsgNoSuitable)
    ELSE IF error.isError /\ Includes(error.message, "AI service")
        THEN Threw(error.message)
    ELSE Threw(MsgFailedRoute)

-----------------------------------------------------------------------------
(* The places search                                                       *)

Returned(v) == [threw |-> FALSE, value |-> v, error |-> NonError]
Thrown(e) == [threw |-> TRUE, value |-> <<>>, error |-> e]

\* findAllDogWalkingPOIs on what the provider found
findAllDogWalkingPOIs(found) ==
    IF found = <<>> THEN Thrown(Err(MsgNoPlaces)) ELSE Returned(found)

-----------------------------------------------------------------------------
(* generateWaypointsWithAI                                                 *)

\* the Fisher-Yates exchange writing one side only
SwapOneWay(a, i, j) == [a EXCEPT ![i] = a[j]]

\* [shuffledPOIs[i], shuffledPOIs[j]] = [shuffledPOIs[j], shuffledPOIs[i]]
Swap(a, i, j) == [a EXCEPT ![i] = a[j], ![j] = a[i]]

\* the Fisher-Yates loop from 0-based index i down to 1; draws[i] is
\* Math.floor(Math.random() * (i + 1))
RECURSIVE ShuffleFrom(_, _, _)
ShuffleFrom(a, i, draws) ==
    IF i < 1 THEN a
    ELSE ShuffleFrom(Swap(a, i + 1, draws[i] + 1), i - 1, draws)

Shuffle(list, draws) == ShuffleFrom(list, Len(list) - 1, draws)

Draws(n) == {d \in [1..(n - 1) -> 0..Max(n - 1, 0)] : \A i \in 1..(n - 1) : d[i] <= i}

\* `${lat.toFixed(6)},${lng.toFixed(6)}`
CoordKey(lat, lng) == ToFixed(lat, 7, 6) \o <<",">> \o ToFixed(lng, 7, 6)

\* placeIdMap.get(key): Map.set keeps the last place of a key
RECURSIVE PlaceIdMapGet(_, _)
PlaceIdMapGet(shuffled, key) ==
    IF shuffled = <<>> THEN Undefined
    ELSE LET last == shuffled[Len(shuffled)]
         IN  IF CoordKey(last.location.lat, last.location.lng) = key
             THEN last.placeId
             ELSE PlaceIdMapGet(SubSeq(shuffled, 1, Len(shuffled) - 1), key)

\* the waypoints the enrichment looks up
NeedsLookup(w) == ~(Truthy(w.placeId) \/ w.type = "start" \/ w.type = "end")

EnrichWaypoint(w, shuffled) ==
    IF ~NeedsLookup(w) THEN w
    ELSE LET placeId == PlaceIdMapGet(shuffled, CoordKey(w.lat[1], w.lng[1]))
         IN  IF Truthy(placeId) THEN [w EXCEPT !.placeId = placeId] ELSE w

\* generateWaypointsWithAI from the completion's content on
WaypointsFromContent(content, shuffled) ==
    IF content.text = "empty" THEN Thrown(Err(MsgNoResponse))
    ELSE IF content.text = "garbage" THEN Thrown(Err(MsgSyntaxError))
    ELSE IF content.text = "no-waypoints" \/ Len(content.waypoints) < 2
        THEN Thrown(Err(MsgInvalidWaypoints))
    ELSE IF \E i \in 1..Len(content.waypoints) :
                /\ NeedsLookup(content.waypoints[i])
                /\ (content.waypoints[i].lat = NoNumber
                        \/ content.waypoints[i].lng = NoNumber)
        THEN Thrown(Err(MsgTypeError))
    ELSE Returned([i \in 1..Len(content.waypoints) |->
                        EnrichWaypoint(content.waypoints[i], shuffled)])

-----------------------------------------------------------------------------
(* Route assembly                                                          *)

Notable(waypoints) ==
    SelectSeq(waypoints, LAMBDA w : w.name # <<"Start">> /\ w.name # <<"End">>)

\* calling split on the first notable name throws when the name is absent
RouteNameThrows(waypoints) ==
    Notable(waypoints) # <<>> /\ Notable(waypoints)[1].name = UndefinedName

Words(name) == [i \in 1..Len(name) |-> <<name[i]>>]

generateRouteName(waypoints, prefs) ==
    IF Notable(waypoints) = <<>>
    THEN NumberText(prefs.distance) \o <<"km Circular Walk">>
    ELSE LET name == Notable(waypoints)[1].name
             firstPlace == Join(Words(SubSeq(name, 1, IF Len(name) < 2 THEN Len(name) ELSE 2)),
                                <<" ">>)
         IN  firstPlace \o <<" Loop (">> \o NumberText(prefs.distance) \o <<"km)">>

\* the separator of the highlights, U+2022 between two spaces
Bullet == " <U+2022> "

\* Array.prototype.join writes nothing for an undefined element
NameText(name) == IF name = UndefinedName THEN <<>> ELSE Join(Words(name), <<" ">>)

generateHighlights(waypoints, prefs) ==
    LET places == [i \in 1..Len(Notable(waypoints)) |-> NameText(Notable(waypoints)[i].name)]
        via == IF Len(places) > 0 THEN <<(<<"Via ">> \o Join(places, <<", ">>))>> ELSE <<>>
        cafe == IF "cafe" \in prefs.mustInclude THEN << <<"Dog-friendly cafe stop">> >> ELSE <<>>
        leash == IF "off-leash" \in prefs.preferences THEN << <<"Off-leash areas">> >> ELSE <<>>
        scenic == IF "scenic" \in prefs.preferences THEN << <<"Scenic views">> >> ELSE <<>>
        text == Join(via \o cafe \o leash \o scenic, <<Bullet>>)
    IN  IF text = <<>> THEN <<"Circular dog walking route">> ELSE text

\* `${(directions.distance / 1000).toFixed(1)}km`
DistanceLabel(meters) == ToFixed(meters, 3, 1) \o <<"k", "m">>

AssembleRouteFromTarget(waypoints, prefs, directions) ==
    Route(generateRouteName(waypoints, prefs), waypoints,
          ToFixed(prefs.distance * 100, 3, 1) \o <<"k", "m">>,
          generateHighlights(waypoints, prefs), TRUE, directions)

\* step 5 of generateCustomRoute
AssembleRoute(waypoints, prefs, directions) ==
    Route(generateRouteName(waypoints, prefs), waypoints,
          DistanceLabel(directions.distance),
          generateHighlights(waypoints, prefs), TRUE, directions)

AfterDirectionsDegrading(answer, waypoints, prefs, loc) ==
    IF answer.threw
    THEN ReturnedRoute(Route(generateRouteName(waypoints, prefs), waypoints,
                             NumberText(prefs.distance) \o <<"k", "m">>,
                             generateHighlights(waypoints, prefs), FALSE, NoDirections))
    ELSE IF RouteNameThrows(waypoints) THEN generateCustomRouteCatch(Err(MsgTypeError), loc)
    ELSE ReturnedRoute(AssembleRoute(waypoints, prefs, answer.value))

\* generateCustomRoute from the answer of getWalkingDirections on
AfterDirections(answer, waypoints, prefs, loc) ==
    IF answer.threw THEN generateCustomRouteCatch(answer.error, loc)
    ELSE IF RouteNameThrows(waypoints) THEN generateCustomRouteCatch(Err(MsgTypeError), loc)
    ELSE ReturnedRoute(AssembleRoute(waypoints, prefs, answer.value))

-----------------------------------------------------------------------------
(* saveGeneratedWalkAction: the conversion                                 *)

\* String.prototype.toLowerCase, on the letters the modelled texts use
LowerChar(c) == CASE c = "K" -> "k" [] c = "M" -> "m" [] c = "E" -> "e" [] OTHER -> c

ToLowerCase(str) == [i \in 1..Len(str) |-> LowerChar(str[i])]

\* String.prototype.replace(pattern, '') with a two-character pattern: the
\* first occurrence only
RECURSIVE RemoveFirst(_, _)
RemoveFirst(str, pattern) ==
    IF Len(str) < 2 THEN str
    ELSE IF str[1] = pattern[1] /\ str[2] = pattern[2] THEN SubSeq(str, 3, Len(str))
    ELSE <<str[1]>> \o RemoveFirst(Tail(str), pattern)

IsDigit(c) == \E n \in 0..9 : DigitChar(n) = c

\* the length of the longest run of digits str starts with
RECURSIVE DigitRun(_)
DigitRun(str) == IF str # <<>> /\ IsDigit(Head(str)) THEN 1 + DigitRun(Tail(str)) ELSE 0

\* a decimal without trailing zeros in its fraction
RECURSIVE Normal(_)
Normal(x) == IF x.e > 0 /\ x.n % 10 = 0 THEN Normal(Dec(x.neg, x.n \div 10, x.e - 1)) ELSE x

\* n * 10^(-e) for a signed exponent
Scaled(neg, n, e) == IF e >= 0 THEN Normal(Dec(neg, n, e)) ELSE Dec(neg, n * Pow(10, -e), 0)

\* parseFloat: the longest prefix that is a decimal literal (sign, digits,
\* fraction, exponent); [nan |-> TRUE] when there is none.  Leading white
\* space is skipped.
ParseFloat(text) ==
    LET str == TrimStart(text)
        signed == str # <<>> /\ Head(str) \in {"-", "+"}
        neg == signed /\ Head(str) = "-"
        body == IF signed THEN Tail(str) ELSE str
        ni == DigitRun(body)
        afterInt == SubSeq(body, ni + 1, Len(body))
        dotted == afterInt # <<>> /\ Head(afterInt) = "."
        nf == IF dotted THEN DigitRun(Tail(afterInt)) ELSE 0
        rest == IF dotted /\ (ni + nf > 0)
                THEN SubSeq(afterInt, nf + 2, Len(afterInt)) ELSE afterInt
        mantissa == NatOf(SubSeq(body, 1, ni))  * Pow(10, nf)
                        + NatOf(SubSeq(body, ni + 2, ni + 1 + nf))
        expSigned == Len(rest) >= 2 /\ rest[1] = "e" /\ rest[2] \in {"-", "+"}
        expDigits == IF rest # <<>> /\ rest[1] = "e"
                     THEN SubSeq(rest, IF expSigned THEN 3 ELSE 2, Len(rest)) ELSE <<>>
        nx == DigitRun(expDigits)
        exponent == IF nx = 0 THEN 0
                    ELSE (IF expSigned /\ rest[2] = "-" THEN -1 ELSE 1)
                            * NatOf(SubSeq(expDigits, 1, nx))
    IN  IF ni + nf = 0 THEN [nan |-> TRUE, value |-> Zero]
        ELSE [nan |-> FALSE, value |-> Scaled(neg, mantissa, nf - exponent)]

\* parseDistance
parseDistance(distanceString) ==
    IF distanceString = <<>> THEN Zero
    ELSE LET numericPart == Trim(RemoveFirst(ToLowerCase(distanceString), <<"k", "m">>))
             parsed == ParseFloat(numericPart)
         IN  IF parsed.nan THEN Zero ELSE parsed.value

\* x < k and x <= k for a decimal x and an integer k >= 0
DecLess(x, k) == IF x.neg THEN x.n > 0 \/ k > 0 ELSE x.n < k * Pow(10, x.e)
DecAtMost(x, k) == IF x.neg THEN TRUE ELSE x.n <= k * Pow(10, x.e)

\* calculateDifficulty with 6 km counted as hard
calculateDifficultyExclusive(distanceKm) ==
    IF DecAtMost(distanceKm, 0) \/ DecLess(distanceKm, 3) THEN "easy"
    ELSE IF DecLess(distanceKm, 6) THEN "moderate"
    ELSE "hard"

\* calculateDifficulty
calculateDifficulty(distanceKm) ==
    IF DecAtMost(distanceKm, 0) \/ DecLess(distanceKm, 3) THEN "easy"
    ELSE IF DecAtMost(distanceKm, 6) THEN "moderate"
    ELSE "hard"

\* Math.round(a / b) for b > 0: the nearest integer, the larger one on a tie
RoundDiv(a, b) == (2 * a + b) \div (2 * b)

\* formatDuration with the minutes cut off instead of rounded
formatDurationTruncating(durationSeconds) ==
    IF durationSeconds = NoNumber \/ durationSeconds = Num(0) THEN 0
    ELSE durationSeconds[1] \div 60

\* formatDuration
formatDuration(durationSeconds) ==
    IF durationSeconds = NoNumber \/ durationSeconds = Num(0) THEN 0
    ELSE RoundDiv(durationSeconds[1], 60)

\* Math.round(distanceKm * 12)
EstimatedMinutes(distanceKm) ==
    RoundDiv((IF distanceKm.neg THEN -12 ELSE 12) * distanceKm.n, Pow(10, distanceKm.e))

\* routes a client may hand to saveGeneratedWalkAction
SaveRoutes ==
    { Route(<<"Sunny Park Loop">>, <<StartWp, PoiWithId, EndWp>>,
            <<"2", ".", "5", " ", "k", "m">>,
            <<"Great views, dog-friendly cafe stop">>, TRUE,
            [distance |-> 2500, duration |-> Num(1800)]),
      Route(<<"Quick Loop">>, <<StartWp, EndWp>>, <<"4", " ", "K", "M">>, <<>>, FALSE,
            NoDirections) }

\* walkData with the difficulty of the default walk form
WalkDataDefaultDifficulty(route, u) ==
    LET distanceKm == parseDistance(route.estimatedDistance)
    IN  [name |-> route.routeName,
         distance_km |-> distanceKm,
         duration_minutes |-> IF route.hasDirections
                              THEN formatDuration(route.directions.duration)
                              ELSE EstimatedMinutes(distanceKm),
         difficulty |-> "moderate",
         notes |-> route.highlights,
         user_id |-> u]

\* walkData with the duration always taken from the directions
WalkDataDirectionsOnly(route, u) ==
    LET distanceKm == parseDistance(route.estimatedDistance)
    IN  [name |-> route.routeName,
         distance_km |-> distanceKm,
         duration_minutes |-> formatDuration(route.directions.duration),
         difficulty |-> calculateDifficulty(distanceKm),
         notes |-> route.highlights,
         user_id |-> u]

\* walkData of saveGeneratedWalkAction
WalkData(route, u) ==
    LET distanceKm == parseDistance(route.estimatedDistance)
    IN  [name |-> route.routeName,
         distance_km |-> distanceKm,
         duration_minutes |-> IF route.hasDirections
                              THEN formatDuration(route.directions.duration)
                              ELSE EstimatedMinutes(distanceKm),
         difficulty |-> calculateDifficulty(distanceKm),
         notes |-> route.highlights,
         user_id |-> u]

-----------------------------------------------------------------------------
(* What a server request leaves alone                                      *)

\* no walkConversion function is being called on its own
NoCall ==
    [fn |-> "none", distanceKm |-> Zero, durationSeconds |-> NoNumber,
     distanceString |-> <<>>, difficulty |-> "", minutes |-> 0, distance |-> Zero]

NoSave == [route |-> 0, result |-> "none"]
NoGeneration == [form |-> 0, route |-> 0, result |-> "none"]

\* RecommendationsClient as mounted
ClientMounted ==
    /\ mode = "basic"
    /\ recommendations = 0
    /\ customRoute = 0
    /\ lastFormData = 0
    /\ isPending = FALSE
    /\ isSaving = FALSE
    /\ isSaved = FALSE
    /\ requests = <<>>
    /\ generated = 0
    /\ savedRoutes = {}
    /\ lastSave = NoSave
    /\ lastGeneration = NoGeneration

NoDelete == [walkId |-> 0, result |-> "none", walks |-> <<>>, alone |-> FALSE]

\* initialWalks
InitialWalks == [i \in 1..MaxWalks |-> i]

\* WalksList as mounted
ListMounted ==
    /\ walks = InitialWalks
    /\ deletes = <<>>
    /\ optimisticIds = {}
    /\ lastDelete = NoDelete
    /\ removedAlone = {}
    /\ removed = {}
    /\ rejected = FALSE

\* no call of a step of the waypoint selection
NoSelection ==
    [fn |-> "none", list |-> <<>>, draws |-> <<>>, shuffled |-> <<>>,
     waypoints |-> <<>>, preferences |-> NoPreferences, result |-> <<>>,
     threw |-> FALSE]

\* the consts of one invocation of generateCustomRoute, before any is bound
NoFrame ==
    [location |-> <<>>, preferences |-> NoPreferences, geocodeResult |-> NoGeocode,
     pois |-> <<>>, shuffledPOIs |-> <<>>, aiWaypoints |-> <<>>]

\* a collaborator that was not asked
Unasked == [threw |-> TRUE, value |-> <<>>, error |-> [isError |-> FALSE, message |-> <<>>]]

NoAnswers ==
    [geocode |-> Unasked, places |-> Unasked, draws |-> <<>>, openai |-> Unasked,
     directions |-> Unasked]

NotRunning ==
    [pc |-> "idle", location |-> <<>>, preferences |-> NoPreferences,
     heard |-> NoAnswers, overlapped |-> FALSE, outcome |-> Pending]

\* nobody has called generateCustomRoute
NoInvocations ==
    /\ frames = [r \in 1..MaxRequests |-> NoFrame]
    /\ running = [r \in 1..MaxRequests |-> NotRunning]

otherVars == <<call, clientVars, listVars, concVars, selection>>

OthersAtRest ==
    call = NoCall /\ ClientMounted /\ ListMounted /\ NoInvocations
        /\ selection = NoSelection

-----------------------------------------------------------------------------
(* The request                                                             *)

\* the routes a client can submit for saving: one it holds already, or the
\* one generateCustomRouteAction has just returned to it
Saveable ==
    IF pc = "idle" THEN SaveRoutes
    ELSE IF pc = "done" /\ outcome.kind = "route" THEN {outcome.route}
    ELSE {}

ClearLocals ==
    /\ geocodeResult' = NoGeocode
    /\ pois' = <<>>
    /\ shuffledPOIs' = <<>>
    /\ aiWaypoints' = <<>>

\* the action returns or throws: its frame is gone
Finish(out, c) ==
    /\ pc' = "done"
    /\ outcome' = out
    /\ caught' = c
    /\ ClearLocals

Invoke(name) ==
    /\ calls' = [calls EXCEPT ![name] = @ + 1]
    /\ trail' = Append(trail, name)

\* what the reply carries, for the claims about invalid replies
RequiredPresent(w) ==
    /\ w.lat # NoNumber
    /\ w.lng # NoNumber
    /\ w.name # UndefinedName
    /\ w.type # Undefined

ReplyShape(content) ==
    [received |-> TRUE,
     parsed |-> content.text \in {"json", "no-waypoints"},
     count |-> Len(content.waypoints),
     complete |-> \A i \in 1..Len(content.waypoints) : RequiredPresent(content.waypoints[i])]

ServerIdle ==
    /\ env \in [AI_RECOMMENDATIONS_ENABLED : FlagValues, OPENAI_API_KEY : ApiKeyValues]
    /\ op = "none"
    /\ pc = "idle"
    /\ location = <<>>
    /\ preferences = NoPreferences
    /\ saveArg = NoRoute
    /\ user = NoUser
    /\ geocodeResult = NoGeocode
    /\ pois = <<>>
    /\ shuffledPOIs = <<>>
    /\ reply = NoReply
    /\ aiWaypoints = <<>>
    /\ inserted = NoWalkData
    /\ calls = ZeroCalls
    /\ trail = <<>>
    /\ caught = NoCaught
    /\ outcome = Pending

Init ==
    /\ ServerIdle
    /\ OthersAtRest
    /\ entangled = TRUE

\* generateCustomRouteAction up to its first await
generateCustomRouteAction(loc, prefs) ==
    /\ pc = "idle"
    /\ op' = "generate"
    /\ location' = loc
    /\ preferences' = prefs
    /\ saveArg' = NoRoute
    /\ user' = NoUser
    /\ reply' = NoReply
    /\ inserted' = NoWalkData
    /\ IF ~FeatureEnabled(env)
       THEN /\ calls' = ZeroCalls
            /\ trail' = <<>>
            /\ Finish(Threw(MsgFeatureDisabled), NoCaught)
       ELSE /\ calls' = [ZeroCalls EXCEPT !.auth = 1]
            /\ trail' = <<"auth">>
            /\ pc' = "auth"
            /\ outcome' = Pending
            /\ caught' = NoCaught
            /\ ClearLocals
    /\ UNCHANGED env
    /\ UNCHANGED otherVars

\* generateCustomRouteAction validating its input before it looks at the user
GenerateAuthReturnValidatingFirst(u) ==
    /\ op = "generate"
    /\ pc = "auth"
    /\ user' = u
    /\ IF ValidationError(location, preferences) # <<>>
       THEN /\ Finish(Threw(ValidationError(location, preferences)), NoCaught)
            /\ UNCHANGED <<location, calls, trail>>
       ELSE IF u = NoUser
       THEN /\ Finish(Threw(MsgLoginGenerate), NoCaught)
            /\ UNCHANGED <<location, calls, trail>>
       ELSE /\ location' = Trim(location)
            /\ pc' = "geocode"
            /\ Invoke("geocode")
            /\ UNCHANGED <<outcome, caught, geocodeResult, pois, shuffledPOIs, aiWaypoints>>
    /\ UNCHANGED <<env, op, preferences, saveArg, reply, inserted>>
    /\ UNCHANGED otherVars

\* supabase.auth.getUser answers generateCustomRouteAction: the login gate,
\* the validation, and the call of generateCustomRoute up to geocodeLocation
GenerateAuthReturn(u) ==
    /\ op = "generate"
    /\ pc = "auth"
    /\ user' = u
    /\ IF u = NoUser
       THEN /\ Finish(Threw(MsgLoginGenerate), NoCaught)
            /\ UNCHANGED <<location, calls, trail>>
       ELSE IF ValidationError(location, preferences) # <<>>
       THEN /\ Finish(Threw(ValidationError(location, preferences)), NoCaught)
            /\ UNCHANGED <<location, calls, trail>>
       ELSE /\ location' = Trim(location)
            /\ pc' = "geocode"
            /\ Invoke("geocode")
            /\ UNCHANGED <<outcome, caught, geocodeResult, pois, shuffledPOIs, aiWaypoints>>
    /\ UNCHANGED <<env, op, preferences, saveArg, reply, inserted>>
    /\ UNCHANGED otherVars

\* generateCustomRoute going on to the places search whatever geocodeLocation
\* answered
GeocodeReturnRegardless(answer) ==
    /\ pc = "geocode"
    /\ geocodeResult' = IF answer.threw THEN NoGeocode ELSE answer.value
    /\ pc' = "places"
    /\ Invoke("places")
    /\ UNCHANGED <<outcome, caught, pois, shuffledPOIs, aiWaypoints>>
    /\ UNCHANGED <<env, op, location, preferences, saveArg, user, reply, inserted>>
    /\ UNCHANGED otherVars

\* geocodeLocation answers: step 1 done, step 2 calls findAllDogWalkingPOIs
GeocodeReturn(answer) ==
    /\ pc = "geocode"
    /\ IF answer.threw
       THEN /\ Finish(generateCustomRouteCatch(answer.error, location),
                      Caught("geocode", "upstream", answer.error))
            /\ UNCHANGED <<calls, trail>>
       ELSE /\ geocodeResult' = answer.value
            /\ pc' = "places"
            /\ Invoke("places")
            /\ UNCHANGED <<outcome, caught, pois, shuffledPOIs, aiWaypoints>>
    /\ UNCHANGED <<env, op, location, preferences, saveArg, user, reply, inserted>>
    /\ UNCHANGED otherVars

\* findAllDogWalkingPOIs answers: step 3 enters generateWaypointsWithAI, which
\* shuffles the places, builds the prompt and calls the language model
PlacesReturn(answer, origin) ==
    /\ pc = "places"
    /\ IF answer.threw
       THEN /\ Finish(generateCustomRouteCatch(answer.error, location),
                      Caught("places", origin, answer.error))
            /\ UNCHANGED <<calls, trail>>
       ELSE IF ~Truthy(env.OPENAI_API_KEY)
       THEN /\ Finish(generateCustomRouteCatch(Err(MsgNoApiKey), location),
                      Caught("openai", "internal", Err(MsgNoApiKey)))
            /\ UNCHANGED <<calls, trail>>
       ELSE /\ pois' = answer.value
            /\ \E draws \in Draws(Len(answer.value)) :
                    shuffledPOIs' = Shuffle(answer.value, draws)
            /\ pc' = "openai"
            /\ Invoke("openai")
            /\ UNCHANGED <<outcome, caught, geocodeResult, aiWaypoints>>
    /\ UNCHANGED <<env, op, location, preferences, saveArg, user, reply, inserted>>
    /\ UNCHANGED otherVars

\* the completion arrives: parse, validate, enrich, and step 4 calls
\* getWalkingDirections
OpenAIReturn(answer) ==
    /\ pc = "openai"
    /\ IF answer.threw
       THEN /\ Finish(generateCustomRouteCatch(answer.error, location),
                      Caught("openai", "upstream", answer.error))
            /\ reply' = NoReply
            /\ UNCHANGED <<calls, trail>>
       ELSE LET r == WaypointsFromContent(answer.value, shuffledPOIs)
            IN  /\ reply' = ReplyShape(answer.value)
                /\ IF r.threw
                   THEN /\ Finish(generateCustomRouteCatch(r.error, location),
                                  Caught("openai", "internal", r.error))
                        /\ UNCHANGED <<calls, trail>>
                   ELSE /\ aiWaypoints' = r.value
                        /\ shuffledPOIs' = <<>>
                        /\ pc' = "directions"
                        /\ Invoke("directions")
                        /\ UNCHANGED <<outcome, caught, geocodeResult, pois>>
    /\ UNCHANGED <<env, op, location, preferences, saveArg, user, inserted>>
    /\ UNCHANGED otherVars

\* generateCustomRoute starting over when getWalkingDirections fails
DirectionsReturnStartingOver(answer) ==
    /\ pc = "directions"
    /\ IF answer.threw
       THEN /\ pc' = "geocode"
            /\ calls' = [ZeroCalls EXCEPT !.auth = 1, !.geocode = 1]
            /\ trail' = <<"auth", "geocode">>
            /\ ClearLocals
            /\ UNCHANGED <<outcome, caught>>
       ELSE /\ Finish(AfterDirections(answer, aiWaypoints, preferences, location),
                      IF RouteNameThrows(aiWaypoints)
                      THEN Caught("assemble", "internal", Err(MsgTypeError))
                      ELSE NoCaught)
            /\ UNCHANGED <<calls, trail>>
    /\ UNCHANGED <<env, op, location, preferences, saveArg, user, reply, inserted>>
    /\ UNCHANGED otherVars

\* getWalkingDirections answers: step 5 assembles the route
DirectionsReturn(answer) ==
    /\ pc = "directions"
    /\ Finish(AfterDirections(answer, aiWaypoints, preferences, location),
              IF answer.threw THEN Caught("directions", "upstream", answer.error)
              ELSE IF RouteNameThrows(aiWaypoints)
                   THEN Caught("assemble", "internal", Err(MsgTypeError))
              ELSE NoCaught)
    /\ UNCHANGED <<env, op, location, preferences, saveArg, user, reply, inserted,
                   calls, trail>>
    /\ UNCHANGED otherVars

\* saveGeneratedWalkAction up to its first await
saveGeneratedWalkAction(route) ==
    /\ route \in Saveable
    /\ op' = "save"
    /\ saveArg' = route
    /\ location' = <<>>
    /\ preferences' = NoPreferences
    /\ user' = NoUser
    /\ reply' = NoReply
    /\ inserted' = NoWalkData
    /\ calls' = [ZeroCalls EXCEPT !.auth = 1]
    /\ trail' = <<"auth">>
    /\ pc' = "auth"
    /\ outcome' = Pending
    /\ caught' = NoCaught
    /\ ClearLocals
    /\ UNCHANGED env
    /\ UNCHANGED otherVars

\* SaveAuthReturn without the login gate
SaveAuthReturnNoGate(u) ==
    /\ op = "save"
    /\ pc = "auth"
    /\ user' = u
    /\ inserted' = WalkData(saveArg, u)
    /\ pc' = "insert"
    /\ Invoke("insert")
    /\ UNCHANGED <<outcome, caught, geocodeResult, pois, shuffledPOIs, aiWaypoints>>
    /\ UNCHANGED <<env, op, location, preferences, saveArg, reply>>
    /\ UNCHANGED otherVars

\* supabase.auth.getUser answers saveGeneratedWalkAction: the login gate, the
\* conversion and the insert
SaveAuthReturn(u) ==
    /\ op = "save"
    /\ pc = "auth"
    /\ user' = u
    /\ IF u = NoUser
       THEN /\ Finish(Threw(MsgLoginSave), NoCaught)
            /\ UNCHANGED <<inserted, calls, trail>>
       ELSE /\ inserted' = WalkData(saveArg, u)
            /\ pc' = "insert"
            /\ Invoke("insert")
            /\ UNCHANGED <<outcome, caught, geocodeResult, pois, shuffledPOIs, aiWaypoints>>
    /\ UNCHANGED <<env, op, location, preferences, saveArg, reply>>
    /\ UNCHANGED otherVars

\* InsertReturn with the store's error logged and the data returned all the same
InsertReturnIgnoringError(answer) ==
    /\ pc = "insert"
    /\ IF answer.threw
       THEN Finish(ReturnedWalk(NoWalk), Caught("insert", "upstream", answer.error))
       ELSE Finish(ReturnedWalk(answer.value), NoCaught)
    /\ UNCHANGED <<env, op, location, preferences, saveArg, user, reply, inserted,
                   calls, trail>>
    /\ UNCHANGED otherVars

\* the insert answers with { data, error }
InsertReturn(answer) ==
    /\ pc = "insert"
    /\ IF answer.threw
       THEN Finish(Threw(MsgSaveFailed(answer.error.message)),
                   Caught("insert", "upstream", answer.error))
       ELSE Finish(ReturnedWalk(answer.value), NoCaught)
    /\ UNCHANGED <<env, op, location, preferences, saveArg, user, reply, inserted,
                   calls, trail>>
    /\ UNCHANGED otherVars

Answers(values, errors) == {Returned(v) : v \in values} \cup {Thrown(e) : e \in errors}

Next ==
    \/ \E loc \in Locations, prefs \in AllPreferences : generateCustomRouteAction(loc, prefs)
    \/ \E u \in Users \cup {NoUser} : GenerateAuthReturn(u)
    \/ \E answer \in Answers(GeocodeResults, UpstreamErrors) : GeocodeReturn(answer)
    \/ \E found \in CandidateLists : PlacesReturn(findAllDogWalkingPOIs(found), "internal")
    \/ \E e \in UpstreamErrors : PlacesReturn(Thrown(e), "upstream")
    \/ \E answer \in Answers(Contents, UpstreamErrors) : OpenAIReturn(answer)
    \/ \E answer \in Answers(DirectionsResults, UpstreamErrors) : DirectionsReturn(answer)
    \/ \E route \in Saveable : saveGeneratedWalkAction(route)
    \/ \E u \in Users \cup {NoUser} : SaveAuthReturn(u)
    \/ \E m \in StoreMessages : InsertReturn(Thrown(Err(m)))
    \/ \E id \in {"walk-123"} : InsertReturn(Returned([data |-> inserted, id |-> id]))

Spec == Init /\ [][Next]_vars

-----------------------------------------------------------------------------
(* A generation request whose awaited calls are all answered.  The answers *)
(* are one result and one failure of each kind per collaborator.           *)

LiveLocations == {<<>>, <<"a">>, <<"a", "a">>}

LivePreferences ==
    { [distance |-> d, mustInclude |-> {}, preferences |-> {}, circular |-> TRUE] :
        d \in {9, 10, 25, 100} }

LiveErrors == {Err(<<"Geocoding">>), Err(<<"ECONNRESET">>)}

LiveContents ==
    { [text |-> "garbage", waypoints |-> <<>>],
      [text |-> "json", waypoints |-> <<StartWp, EndWp>>],
      [text |-> "json", waypoints |-> <<StartWp, PoiNoName, EndWp>>],
      [text |-> "json", waypoints |-> ReplyList(MaxReplyLen, StartWp, PoiNoIdMatch, EndWp)] }

\* an awaited call of the generation request returns or fails
Answered ==
    \/ \E u \in Users \cup {NoUser} : GenerateAuthReturn(u)
    \/ \E answer \in Answers(GeocodeResults, LiveErrors) : GeocodeReturn(answer)
    \/ \E found \in {<<>>, <<P1>>, <<P1, P2>>} :
            PlacesReturn(findAllDogWalkingPOIs(found), "internal")
    \/ \E e \in LiveErrors : PlacesReturn(Thrown(e), "upstream")
    \/ \E answer \in Answers(LiveContents, LiveErrors) : OpenAIReturn(answer)
    \/ \E answer \in Answers({[distance |-> 2050, duration |-> Num(1800)]}, LiveErrors) :
            DirectionsReturn(answer)

LiveNext ==
    \/ \E loc \in LiveLocations, prefs \in LivePreferences :
            generateCustomRouteAction(loc, prefs)
    \/ Answered

\* the request with every awaited call answered in the end
LiveSpec == Init /\ [][LiveNext]_vars /\ WF_vars(Answered)

-----------------------------------------------------------------------------
(* lib/utils/walkConversion.ts, each function called on its own            *)

\* numbers handed to calculateDifficulty: every tenth of a km up to the
\* bound, of either sign, and hundredths next to the two thresholds
Distances ==
    {Dec(neg, n, 1) : neg \in BOOLEAN, n \in 0..MaxTenths}
        \cup {Dec(FALSE, n, 2) : n \in {299, 301, 599, 601}}

\* arguments of formatDuration: undefined, small whole numbers of seconds of
\* either sign, and the durations of real walks
Durations ==
    {NoNumber} \cup {Num(t) : t \in (-MaxSeconds)..MaxSeconds}
        \cup {Num(1800), Num(1820), Num(1850), Num(3600)}

\* arguments of parseDistance
DistanceChars == {"5", ".", " ", "k", "m", "K", "M", "x"}
DistanceStrings == SeqsUpTo(DistanceChars, MaxTextLen)

CallCalculateDifficulty(distanceKm) ==
    /\ call = NoCall
    /\ call' = [NoCall EXCEPT !.fn = "calculateDifficulty",
                              !.distanceKm = distanceKm,
                              !.difficulty = calculateDifficulty(distanceKm)]
    /\ UNCHANGED <<serverVars, clientVars, listVars, concVars, selection>>

CallFormatDuration(durationSeconds) ==
    /\ call = NoCall
    /\ call' = [NoCall EXCEPT !.fn = "formatDuration",
                              !.durationSeconds = durationSeconds,
                              !.minutes = formatDuration(durationSeconds)]
    /\ UNCHANGED <<serverVars, clientVars, listVars, concVars, selection>>

CallParseDistance(distanceString) ==
    /\ call = NoCall
    /\ call' = [NoCall EXCEPT !.fn = "parseDistance",
                              !.distanceString = distanceString,
                              !.distance = parseDistance(distanceString)]
    /\ UNCHANGED <<serverVars, clientVars, listVars, concVars, selection>>

ConversionInit ==
    /\ Init
    /\ env = [AI_RECOMMENDATIONS_ENABLED |-> "true", OPENAI_API_KEY |-> "sk-test"]

ConversionNext ==
    \/ \E distanceKm \in Distances : CallCalculateDifficulty(distanceKm)
    \/ \E durationSeconds \in Durations : CallFormatDuration(durationSeconds)
    \/ \E distanceString \in DistanceStrings : CallParseDistance(distanceString)

ConversionSpec == ConversionInit /\ [][ConversionNext]_vars

-----------------------------------------------------------------------------
(* RecommendationsClient.  A handler runs on the values of the render it   *)
(* belongs to; React renders again before the next event is handled, so a  *)
(* handler, and each continuation after an await, is one step.  The server *)
(* actions are the environment: each awaited call succeeds or fails.       *)

Remove(list, i) == SubSeq(list, 1, i - 1) \o SubSeq(list, i + 1, Len(list))

Request(kind, form, route) == [kind |-> kind, form |-> form, route |-> route]

\* isPending of useTransition: an action started in a transition is awaited
StillPending(awaited) ==
    \E i \in 1..Len(awaited) : awaited[i].kind \in {"basic", "generate"}

\* {!isPending && mode === 'custom' && customRoute && (
RoutePanelShown == ~isPending /\ mode = "custom" /\ customRoute # 0

\* disabled={isSaving || isSaved}
SaveDisabled == isSaving \/ isSaved

\* onClick={() => setMode(...)}
setMode(m) ==
    /\ mode' = m
    /\ UNCHANGED <<recommendations, customRoute, lastFormData, isPending, isSaving,
                   isSaved, requests, generated, savedRoutes, lastSave,
                   lastGeneration>>
    /\ UNCHANGED <<serverVars, call, listVars, concVars, selection>>

\* handleSubmit of the basic form, with a location entered
handleSubmit ==
    /\ mode = "basic"
    /\ ~isPending
    /\ isPending' = TRUE
    /\ requests' = Append(requests, Request("basic", 0, 0))
    /\ UNCHANGED <<mode, recommendations, customRoute, lastFormData, isSaving,
                   isSaved, generated, savedRoutes, lastSave, lastGeneration>>
    /\ UNCHANGED <<serverVars, call, listVars, concVars, selection>>

\* getRecommendationsAction answers
RecommendationsReturn(i, ok) ==
    /\ i \in 1..Len(requests)
    /\ requests[i].kind = "basic"
    /\ requests' = Remove(requests, i)
    /\ isPending' = StillPending(Remove(requests, i))
    /\ IF ok
       THEN recommendations' = 2 /\ customRoute' = 0
       ELSE recommendations' = 0 /\ UNCHANGED customRoute
    /\ UNCHANGED <<mode, lastFormData, isSaving, isSaved, generated, savedRoutes,
                   lastSave, lastGeneration>>
    /\ UNCHANGED <<serverVars, call, listVars, concVars, selection>>

\* handleCustomRouteSubmit up to the await
handleCustomRouteSubmit(data) ==
    /\ lastFormData' = data
    /\ isSaved' = FALSE
    /\ isPending' = TRUE
    /\ requests' = Append(requests, Request("generate", data, 0))
    /\ UNCHANGED <<mode, recommendations, customRoute, isSaving, generated,
                   savedRoutes, lastSave, lastGeneration>>
    /\ UNCHANGED <<serverVars, call, listVars, concVars, selection>>

\* the custom route form is submitted
SubmitCustomRouteForm(data) ==
    /\ mode = "custom"
    /\ ~isPending
    /\ handleCustomRouteSubmit(data)

\* handleShowMeAnother
handleShowMeAnother ==
    /\ RoutePanelShown
    /\ IF lastFormData = 0
       THEN UNCHANGED vars
       ELSE handleCustomRouteSubmit(lastFormData)

\* handleCustomRouteSubmit whose catch leaves the route in place
GenerateReturnKeepingRoute(i, ok) ==
    /\ i \in 1..Len(requests)
    /\ requests[i].kind = "generate"
    /\ ok => generated < MaxRoutes
    /\ requests' = Remove(requests, i)
    /\ isPending' = StillPending(Remove(requests, i))
    /\ IF ok
       THEN /\ generated' = generated + 1
            /\ customRoute' = generated + 1
            /\ recommendations' = 0
       ELSE UNCHANGED <<customRoute, generated, recommendations>>
    /\ lastGeneration' = [form |-> requests[i].form,
                          route |-> IF ok THEN generated + 1 ELSE 0,
                          result |-> IF ok THEN "route" ELSE "failed"]
    /\ UNCHANGED <<mode, lastFormData, isSaving, isSaved, savedRoutes, lastSave>>
    /\ UNCHANGED <<serverVars, call, listVars, concVars, selection>>

\* generateCustomRouteAction answers handleCustomRouteSubmit
GenerateReturn(i, ok) ==
    /\ i \in 1..Len(requests)
    /\ requests[i].kind = "generate"
    /\ ok => generated < MaxRoutes
    /\ requests' = Remove(requests, i)
    /\ isPending' = StillPending(Remove(requests, i))
    /\ IF ok
       THEN /\ generated' = generated + 1
            /\ customRoute' = generated + 1
            /\ recommendations' = 0
       ELSE /\ customRoute' = 0
            /\ UNCHANGED <<generated, recommendations>>
    /\ lastGeneration' = [form |-> requests[i].form,
                          route |-> IF ok THEN generated + 1 ELSE 0,
                          result |-> IF ok THEN "route" ELSE "failed"]
    /\ UNCHANGED <<mode, lastFormData, isSaving, isSaved, savedRoutes, lastSave>>
    /\ UNCHANGED <<serverVars, call, listVars, concVars, selection>>

\* handleSaveWalk up to the await
handleSaveWalk ==
    /\ RoutePanelShown
    /\ ~SaveDisabled
    /\ IF customRoute = 0 \/ isSaving \/ isSaved
       THEN UNCHANGED <<isSaving, requests>>
       ELSE /\ isSaving' = TRUE
            /\ requests' = Append(requests, Request("save", 0, customRoute))
    /\ UNCHANGED <<mode, recommendations, customRoute, lastFormData, isPending,
                   isSaved, generated, savedRoutes, lastSave, lastGeneration>>
    /\ UNCHANGED <<serverVars, call, listVars, concVars, selection>>

\* handleSaveWalk with isSaved never set
SaveReturnForgetting(i, ok) ==
    /\ i \in 1..Len(requests)
    /\ requests[i].kind = "save"
    /\ requests' = Remove(requests, i)
    /\ savedRoutes' = IF ok THEN savedRoutes \cup {requests[i].route} ELSE savedRoutes
    /\ lastSave' = [route |-> requests[i].route,
                    result |-> IF ok THEN "saved" ELSE "failed"]
    /\ isSaving' = FALSE
    /\ UNCHANGED <<mode, recommendations, customRoute, lastFormData, isPending,
                   isSaved, generated, lastGeneration>>
    /\ UNCHANGED <<serverVars, call, listVars, concVars, selection>>

\* saveGeneratedWalkAction answers handleSaveWalk
SaveReturn(i, ok) ==
    /\ i \in 1..Len(requests)
    /\ requests[i].kind = "save"
    /\ requests' = Remove(requests, i)
    /\ isSaved' = IF ok THEN TRUE ELSE isSaved
    /\ savedRoutes' = IF ok THEN savedRoutes \cup {requests[i].route} ELSE savedRoutes
    /\ lastSave' = [route |-> requests[i].route,
                    result |-> IF ok THEN "saved" ELSE "failed"]
    /\ isSaving' = FALSE
    /\ UNCHANGED <<mode, recommendations, customRoute, lastFormData, isPending,
                   generated, lastGeneration>>
    /\ UNCHANGED <<serverVars, call, listVars, concVars, selection>>

ClientInit ==
    /\ Init
    /\ env = [AI_RECOMMENDATIONS_ENABLED |-> "true", OPENAI_API_KEY |-> "sk-test"]

ClientNext ==
    \/ \E m \in {"basic", "custom"} : setMode(m)
    \/ handleSubmit
    \/ \E i \in 1..2, ok \in BOOLEAN : RecommendationsReturn(i, ok)
    \/ \E data \in 1..MaxForms : SubmitCustomRouteForm(data)
    \/ handleShowMeAnother
    \/ \E i \in 1..2, ok \in BOOLEAN : GenerateReturn(i, ok)
    \/ handleSaveWalk
    \/ \E i \in 1..2, ok \in BOOLEAN : SaveReturn(i, ok)

ClientSpec == ClientInit /\ [][ClientNext]_vars

-----------------------------------------------------------------------------
(* WalksList.  onDelete is the environment: it resolves or rejects.        *)

\* currentWalks.filter(walk => walk.id !== walkIdToDelete)
Filter(list, walkId) == SelectSeq(list, LAMBDA w : w # walkId)

\* optimisticWalks of useOptimistic: the reducer applied to `walks` for every
\* optimistic update still held
optimisticWalks == SelectSeq(walks, LAMBDA w : w \notin optimisticIds)

\* handleDelete up to the await, from the WalkCard of a walk on display
handleDelete(walkId) ==
    /\ walkId \in Range(optimisticWalks)
    /\ optimisticIds' = optimisticIds \cup {walkId}
    /\ deletes' = Append([i \in 1..Len(deletes) |-> [deletes[i] EXCEPT !.overlapped = TRUE]],
                         [walkId |-> walkId, walks |-> walks,
                          overlapped |-> deletes # <<>>])
    /\ UNCHANGED <<walks, entangled, lastDelete, removedAlone, removed, rejected>>
    /\ UNCHANGED <<serverVars, call, clientVars, concVars, selection>>

\* the optimistic updates left when a transition ends
HeldAfter(awaited, walkId) ==
    IF entangled
    THEN IF awaited = <<>> THEN {} ELSE optimisticIds
    ELSE optimisticIds \ {walkId}

\* handleDelete removing the walk whatever onDelete answered
DeleteReturnRemovingAlways(i, ok) ==
    /\ i \in 1..Len(deletes)
    /\ deletes' = Remove(deletes, i)
    /\ walks' = Filter(deletes[i].walks, deletes[i].walkId)
    /\ optimisticIds' = HeldAfter(Remove(deletes, i), deletes[i].walkId)
    /\ lastDelete' = [walkId |-> deletes[i].walkId,
                      result |-> IF ok THEN "deleted" ELSE "failed",
                      walks |-> deletes[i].walks,
                      alone |-> ~deletes[i].overlapped]
    /\ removedAlone' = IF ok /\ ~deletes[i].overlapped
                       THEN removedAlone \cup {deletes[i].walkId}
                       ELSE removedAlone
    /\ removed' = IF ok THEN removed \cup {deletes[i].walkId} ELSE removed
    /\ rejected' = (rejected \/ ~ok)
    /\ UNCHANGED entangled
    /\ UNCHANGED <<serverVars, call, clientVars, concVars, selection>>

\* onDelete answers handleDelete
DeleteReturn(i, ok) ==
    /\ i \in 1..Len(deletes)
    /\ deletes' = Remove(deletes, i)
    /\ walks' = IF ok THEN Filter(deletes[i].walks, deletes[i].walkId) ELSE walks
    /\ optimisticIds' = HeldAfter(Remove(deletes, i), deletes[i].walkId)
    /\ lastDelete' = [walkId |-> deletes[i].walkId,
                      result |-> IF ok THEN "deleted" ELSE "failed",
                      walks |-> deletes[i].walks,
                      alone |-> ~deletes[i].overlapped]
    /\ removedAlone' = IF ok /\ ~deletes[i].overlapped
                       THEN removedAlone \cup {deletes[i].walkId}
                       ELSE removedAlone
    /\ removed' = IF ok THEN removed \cup {deletes[i].walkId} ELSE removed
    /\ rejected' = (rejected \/ ~ok)
    /\ UNCHANGED entangled
    /\ UNCHANGED <<serverVars, call, clientVars, concVars, selection>>

ListInit ==
    /\ ServerIdle
    /\ env = [AI_RECOMMENDATIONS_ENABLED |-> "true", OPENAI_API_KEY |-> "sk-test"]
    /\ call = NoCall
    /\ ClientMounted
    /\ ListMounted
    /\ NoInvocations
    /\ selection = NoSelection
    /\ entangled \in BOOLEAN

ListNext ==
    \/ \E walkId \in 1..MaxWalks : handleDelete(walkId)
    \/ \E i \in 1..MaxWalks, ok \in BOOLEAN : DeleteReturn(i, ok)

ListSpec == ListInit /\ [][ListNext]_vars

-----------------------------------------------------------------------------
(* generateCustomRoute called by several requests at once.  Node runs one  *)
(* continuation at a time, so a call up to its first await, and each       *)
(* continuation after an await, is one step; the steps of different        *)
(* requests interleave in any order.  The module lib/ai/openai.ts declares *)
(* no variable outside its functions and getOpenAIClient builds a client   *)
(* per call, so everything a request binds lives in its own invocation.    *)

\* where the consts of request r live: every invocation has a frame of its own
SharedFrame(r) == 1

Frame(r) == r

\* what the requests call generateCustomRoute with
ConcurrentInputs ==
    { [location |-> <<"a">>,
       preferences |-> [distance |-> 10, mustInclude |-> {}, preferences |-> {},
                        circular |-> TRUE]],
      [location |-> <<"a", "a">>,
       preferences |-> [distance |-> 25, mustInclude |-> {"cafe"},
                        preferences |-> {"off-leash", "scenic"}, circular |-> TRUE]] }

ConcurrentFound == {<<>>, <<P2>>, <<P1, P2>>}

ConcurrentContents ==
    { [text |-> "garbage", waypoints |-> <<>>],
      [text |-> "json", waypoints |-> <<StartWp, PoiNoIdMatch, EndWp>>] }

ConcurrentDirections == {[distance |-> 2050, duration |-> Num(1800)]}

ConcurrentErrors == {Err(<<"ECONNRESET">>)}

Bind(r, field, value) == [frames EXCEPT ![Frame(r)][field] = value]

Hear(r, stage, answer, next) ==
    [running EXCEPT ![r].heard[stage] = answer, ![r].pc = next]

\* the invocation of request r returns or throws
Settle(r, stage, answer, out) ==
    /\ running' = [running EXCEPT ![r].heard[stage] = answer, ![r].pc = "done",
                                  ![r].outcome = out]
    /\ UNCHANGED frames

InFlight(r) == running[r].pc \notin {"idle", "done"}

\* generateCustomRoute up to the await of geocodeLocation
generateCustomRoute(r, input) ==
    /\ running[r].pc = "idle"
    /\ frames' = [frames EXCEPT ![Frame(r)] =
                    [NoFrame EXCEPT !.location = input.location,
                                    !.preferences = input.preferences]]
    /\ running' = [q \in 1..MaxRequests |->
                    IF q = r
                    THEN [NotRunning EXCEPT !.pc = "geocode",
                                            !.location = input.location,
                                            !.preferences = input.preferences,
                                            !.overlapped = \E o \in 1..MaxRequests : InFlight(o)]
                    ELSE IF InFlight(q) THEN [running[q] EXCEPT !.overlapped = TRUE]
                    ELSE running[q]]
    /\ UNCHANGED <<serverVars, call, clientVars, listVars, selection>>

\* geocodeLocation answers request r
ConcurrentGeocodeReturn(r, answer) ==
    /\ running[r].pc = "geocode"
    /\ IF answer.threw
       THEN Settle(r, "geocode", answer,
                   generateCustomRouteCatch(answer.error, frames[Frame(r)].location))
       ELSE /\ frames' = Bind(r, "geocodeResult", answer.value)
            /\ running' = Hear(r, "geocode", answer, "places")
    /\ UNCHANGED <<serverVars, call, clientVars, listVars, selection>>

\* findAllDogWalkingPOIs answers request r, which shuffles what was found
ConcurrentPlacesReturn(r, answer, draws) ==
    /\ running[r].pc = "places"
    /\ IF answer.threw
       THEN Settle(r, "places", answer,
                   generateCustomRouteCatch(answer.error, frames[Frame(r)].location))
       ELSE /\ frames' = [frames EXCEPT ![Frame(r)].pois = answer.value,
                                        ![Frame(r)].shuffledPOIs = Shuffle(answer.value, draws)]
            /\ running' = [running EXCEPT ![r].heard.places = answer,
                                          ![r].heard.draws = draws,
                                          ![r].pc = "openai"]
    /\ UNCHANGED <<serverVars, call, clientVars, listVars, selection>>

\* the completion arrives for request r
ConcurrentOpenAIReturn(r, answer) ==
    /\ running[r].pc = "openai"
    /\ LET made == IF answer.threw THEN answer
                   ELSE WaypointsFromContent(answer.value, frames[Frame(r)].shuffledPOIs)
       IN  IF made.threw
           THEN Settle(r, "openai", answer,
                       generateCustomRouteCatch(made.error, frames[Frame(r)].location))
           ELSE /\ frames' = Bind(r, "aiWaypoints", made.value)
                /\ running' = Hear(r, "openai", answer, "directions")
    /\ UNCHANGED <<serverVars, call, clientVars, listVars, selection>>

\* getWalkingDirections answers request r
ConcurrentDirectionsReturn(r, answer) ==
    /\ running[r].pc = "directions"
    /\ Settle(r, "directions", answer,
              AfterDirections(answer, frames[Frame(r)].aiWaypoints,
                              frames[Frame(r)].preferences, frames[Frame(r)].location))
    /\ UNCHANGED <<serverVars, call, clientVars, listVars, selection>>

ConcurrentInit ==
    /\ Init
    /\ env = [AI_RECOMMENDATIONS_ENABLED |-> "true", OPENAI_API_KEY |-> "sk-test"]

ConcurrentNext ==
    \E r \in 1..MaxRequests :
        \/ \E input \in ConcurrentInputs : generateCustomRoute(r, input)
        \/ \E answer \in Answers(GeocodeResults, ConcurrentErrors) :
                ConcurrentGeocodeReturn(r, answer)
        \/ \E found \in ConcurrentFound : \E draws \in Draws(Len(found)) :
                ConcurrentPlacesReturn(r, findAllDogWalkingPOIs(found), draws)
        \/ \E answer \in Answers(ConcurrentContents, ConcurrentErrors) :
                ConcurrentOpenAIReturn(r, answer)
        \/ \E answer \in Answers(ConcurrentDirections, ConcurrentErrors) :
                ConcurrentDirectionsReturn(r, answer)

ConcurrentSpec == ConcurrentInit /\ [][ConcurrentNext]_vars

-----------------------------------------------------------------------------
(* The steps of the waypoint selection, each called on its own: the        *)
(* shuffle, the candidate list of the prompt, the enrichment of the reply  *)
(* and the route name.                                                     *)

\* .slice(0, 20)
PromptCandidates == 20

Min(a, b) == IF a < b THEN a ELSE b

\* poisSummary without the slice
poisSummaryWhole(shuffled) ==
    [i \in 1..Len(shuffled) |-> [index |-> i, place |-> shuffled[i]]]

\* poisSummary before the join: the numbered entries of the prompt
poisSummary(shuffled) ==
    [i \in 1..Min(PromptCandidates, Len(shuffled)) |->
        [index |-> i, place |-> shuffled[i]]]

\* lists shuffled with every sequence of draws
ShuffleLists == SeqsUpTo({P1, P2, P3}, MaxShuffled)

\* the places of a long search result: all different
NumberedPlace(i) ==
    [placeId |-> "ChIJ-" \o ToString(i), name |-> <<"Place", ToString(i)>>,
     location |-> [lat |-> 100 * i, lng |-> 100 * i + 1]]

LongLists ==
    { [i \in 1..n |-> NumberedPlace(i)] : n \in 0..MaxCandidates }
        \cup { [i \in 1..n |-> NumberedPlace(n + 1 - i)] : n \in 2..MaxCandidates }

\* draws that leave the list as it is, rotate it, or mix it
SomeDraws(n) ==
    { [i \in 1..(n - 1) |-> i], [i \in 1..(n - 1) |-> 0], [i \in 1..(n - 1) |-> i \div 2] }

\* a place and a waypoint on either side of the meridian, less than half a
\* millionth of a degree from it
PWest == [placeId |-> "ChIJ-4", name |-> <<"Meridian", "Gate">>,
          location |-> [lat |-> 20, lng |-> 2]]
PoiEast == Wp(Num(20), Num(-2), <<"Meridian", "Gate">>, "poi", "park", Undefined)

\* a reply whose first and last waypoint carry the name of a place
StartNamed == Wp(Num(20), Num(30), <<"Bradford", "on", "Avon">>, "start", Undefined, Undefined)
EndNamed == Wp(Num(20), Num(30), <<"Bradford", "on", "Avon">>, "end", Undefined, Undefined)

SelectionPlaces == {P1, P2, P3, PWest}

SelectionCandidates ==
    {<<p>> : p \in SelectionPlaces}
        \cup {pq \in SelectionPlaces \X SelectionPlaces : pq[1] # pq[2]}

SelectionMiddles == MiddleWaypoints \cup {PoiEast}

SelectionReplies ==
    { <<f, l>> : f \in {StartWp, StartNamed}, l \in {EndWp, EndNamed} }
        \cup { <<f, m, l>> : f \in {StartWp, StartNamed}, m \in SelectionMiddles,
                             l \in {EndWp, EndNamed} }
        \cup { <<StartWp, m, n, EndWp>> : m \in SelectionMiddles, n \in SelectionMiddles }

SelectionPreferences ==
    { [distance |-> d, mustInclude |-> {}, preferences |-> {}, circular |-> TRUE] :
        d \in {10, 25} }

\* the shuffle of generateWaypointsWithAI
CallShuffle(list, draws) ==
    /\ selection = NoSelection
    /\ selection' = [NoSelection EXCEPT !.fn = "shuffle", !.list = list,
                                        !.draws = draws,
                                        !.result = Shuffle(list, draws)]
    /\ UNCHANGED <<serverVars, call, clientVars, listVars, concVars>>

\* the shuffle and the candidate list of the prompt
CallPoisSummary(list, draws) ==
    /\ selection = NoSelection
    /\ selection' = [NoSelection EXCEPT !.fn = "poisSummary", !.list = list,
                                        !.draws = draws,
                                        !.shuffled = Shuffle(list, draws),
                                        !.result = poisSummary(Shuffle(list, draws))]
    /\ UNCHANGED <<serverVars, call, clientVars, listVars, concVars>>

\* the reply of the language model from JSON.parse on, against the shuffled
\* candidates
CallEnrich(waypoints, shuffled) ==
    /\ selection = NoSelection
    /\ LET made == WaypointsFromContent([text |-> "json", waypoints |-> waypoints],
                                        shuffled)
       IN  selection' = [NoSelection EXCEPT !.fn = "enrich", !.waypoints = waypoints,
                                            !.shuffled = shuffled,
                                            !.threw = made.threw,
                                            !.result = made.value]
    /\ UNCHANGED <<serverVars, call, clientVars, listVars, concVars>>

CallGenerateRouteName(waypoints, prefs) ==
    /\ selection = NoSelection
    /\ selection' = [NoSelection EXCEPT
                        !.fn = "generateRouteName", !.waypoints = waypoints,
                        !.preferences = prefs,
                        !.threw = RouteNameThrows(waypoints),
                        !.result = IF RouteNameThrows(waypoints) THEN <<>>
                                   ELSE generateRouteName(waypoints, prefs)]
    /\ UNCHANGED <<serverVars, call, clientVars, listVars, concVars>>

SelectionInit ==
    /\ Init
    /\ env = [AI_RECOMMENDATIONS_ENABLED |-> "true", OPENAI_API_KEY |-> "sk-test"]

SelectionNext ==
    \/ \E list \in ShuffleLists : \E draws \in Draws(Len(list)) : CallShuffle(list, draws)
    \/ \E list \in LongLists : \E draws \in SomeDraws(Len(list)) :
            CallPoisSummary(list, draws)
    \/ \E waypoints \in SelectionReplies, shuffled \in SelectionCandidates :
            CallEnrich(waypoints, shuffled)
    \/ \E waypoints \in SelectionReplies, prefs \in SelectionPreferences :
            CallGenerateRouteName(waypoints, prefs)

SelectionSpec == SelectionInit /\ [][SelectionNext]_vars

-----------------------------------------------------------------------------
(* Vocabulary of the properties                                            *)

Generating == op = "generate"
Done == pc = "done"

\* the input the validation is to reject, in the words of the specification
InvalidInput(loc, prefs) ==
    \/ Len(Trim(loc)) < 2
    \/ prefs.distance < 10
    \/ prefs.distance > 100

ValidationMessages == {MsgEnterLocation, MsgValidLocation, MsgDistanceRange}

NoPipelineCalls ==
    /\ calls.geocode = 0
    /\ calls.places = 0
    /\ calls.openai = 0
    /\ calls.directions = 0

\* the error category a message tells the caller.  The program has no message
\* of its own for a failed directions stage: the general failure message is
\* the one such a failure is reported with.
Category(message) ==
    IF message = MsgCouldNotFind(location) THEN "LocationNotFound"
    ELSE IF message = MsgNoSuitable THEN "NoCandidatesFound"
    ELSE IF Includes(message, "AI service") THEN "AIServiceError"
    ELSE IF message = MsgFailedRoute THEN "DirectionsError"
    ELSE "other"

StageCategory(stage) ==
    CASE stage = "geocode" -> "LocationNotFound"
      [] stage = "places" -> "NoCandidatesFound"
      [] stage = "openai" -> "AIServiceError"
      [] stage = "directions" -> "DirectionsError"
      [] OTHER -> "other"

PipelineStages == {"geocode", "places", "openai", "directions"}

\* the messages the two actions write themselves
FixedMessages ==
    ValidationMessages \cup
    {MsgFeatureDisabled, MsgLoginGenerate, MsgCouldNotFind(location), MsgNoSuitable,
     MsgFailedRoute, MsgNoResponse, MsgLoginSave}

\* a label "<digits>.<digit>km"
WellFormedLabel(label) ==
    /\ Len(label) >= 5
    /\ label[Len(label)] = "m"
    /\ label[Len(label) - 1] = "k"
    /\ label[Len(label) - 3] = "."
    /\ \A i \in (1..(Len(label) - 4)) \cup {Len(label) - 2} :
            \E n \in 0..9 : DigitChar(n) = label[i]

LabelTenths(label) ==
    10 * NatOf(SubSeq(label, 1, Len(label) - 4)) + DigitValue(label[Len(label) - 2])

-----------------------------------------------------------------------------
(* C1.  As claimed: every generateCustomRouteAction request whose location *)
(* is shorter than 2 characters after trimming, or whose distance is below *)
(* 1 or above 10, fails with a validation error and invokes none of        *)
(* geocoder, places search, language model and directions.                 *)
C1_ValidationAlwaysReported ==
    (Generating /\ Done /\ InvalidInput(location, preferences))
        => /\ outcome.kind = "error"
           /\ outcome.message \in ValidationMessages
           /\ NoPipelineCalls

(* C1, amended.  A request with such input never invokes geocoder, places  *)
(* search, language model or directions; and when the feature flag is on   *)
(* and the caller is authenticated, it fails with a validation error.      *)
C1_ValidationBehindGates ==
    (Generating /\ InvalidInput(location, preferences))
        => /\ NoPipelineCalls
           /\ (Done /\ env.AI_RECOMMENDATIONS_ENABLED = "true" /\ user # NoUser)
                => (outcome.kind = "error" /\ outcome.message \in ValidationMessages)

C1_Witness ==
    /\ Generating /\ Done
    /\ env.AI_RECOMMENDATIONS_ENABLED = "true"
    /\ user # NoUser
    /\ Len(Trim(location)) >= 2
    /\ preferences.distance = 9
    /\ outcome.message = MsgDistanceRange
    /\ trail = <<"auth">>

(* C2.  When AI_RECOMMENDATIONS_ENABLED is not 'true', every               *)
(* generateCustomRouteAction request fails with the feature-disabled error *)
(* and no stage has run.                                                   *)
C2_FeatureDisabledFirst ==
    (Generating /\ env.AI_RECOMMENDATIONS_ENABLED # "true")
        => /\ Done
           /\ outcome.kind = "error"
           /\ outcome.message = MsgFeatureDisabled
           /\ NoPipelineCalls

C2_Witness ==
    /\ Generating /\ Done
    /\ env.AI_RECOMMENDATIONS_ENABLED = "1"
    /\ ~InvalidInput(location, preferences)
    /\ outcome.message = MsgFeatureDisabled

(* C3.  generateCustomRoute is all-or-nothing: a route is returned only    *)
(* after geocoding, places search, waypoint selection and directions were  *)
(* each invoked and none of them failed, and it carries the directions; a  *)
(* request in which a stage failed ends in an error and returns no route.  *)
C3_AllOrNothing ==
    (Generating /\ Done)
        => /\ outcome.kind \in {"route", "error"}
           /\ outcome.kind = "route"
                => /\ trail = <<"auth", "geocode", "places", "openai", "directions">>
                   /\ caught = NoCaught
                   /\ outcome.route.hasDirections
                   /\ outcome.route.directions \in DirectionsResults
           /\ caught.stage # "none"
                => /\ outcome.kind = "error"
                   /\ outcome.route = NoRoute

C3_Witness ==
    /\ Generating /\ Done
    /\ caught.stage = "directions"
    /\ outcome.kind = "error"
    /\ calls.openai = 1

(* C4.  When the places search finds nothing, generateCustomRoute fails    *)
(* with the 'try a different area' error and neither the language model    *)
(* nor the directions stage is invoked.  (At the places stage only the     *)
(* empty result is a failure the program raises itself.)                   *)
C4_NoCandidates ==
    (Generating /\ caught.stage = "places" /\ caught.origin = "internal")
        => /\ Done
           /\ outcome.kind = "error"
           /\ outcome.message = MsgNoSuitable
           /\ calls.openai = 0
           /\ calls.directions = 0

C4_Witness ==
    /\ Generating /\ Done
    /\ caught = Caught("places", "internal", Err(MsgNoPlaces))
    /\ outcome.message = MsgNoSuitable
    /\ trail = <<"auth", "geocode", "places">>

(* C5.  Error translation is stage-faithful: whatever message an upstream  *)
(* failure carries, the request fails, and the failure of one stage is     *)
(* never reported under the category of another stage.  (The general       *)
(* failure message is accepted for every stage here.)                      *)
C5_StageFaithful ==
    (Generating /\ Done /\ caught.stage \in PipelineStages /\ caught.origin = "upstream")
        => /\ outcome.kind = "error"
           /\ Category(outcome.message) \in {StageCategory(caught.stage), "DirectionsError"}

(* C6.  A reply of the language model that cannot be parsed, has fewer     *)
(* than 2 waypoints or has a waypoint without lat, lng, name or type makes *)
(* the request fail: the directions stage is not invoked and no route is   *)
(* returned.                                                               *)
C6_InvalidReplyRejected ==
    (Generating /\ reply.received
        /\ (~reply.parsed \/ reply.count < 2 \/ ~reply.complete))
        => /\ calls.directions = 0
           /\ Done
           /\ outcome.kind = "error"

(* C7.  No upstream error text reaches the caller: the message of every    *)
(* error the two actions throw is one of their own fixed messages and does *)
(* not contain the message of the upstream or store error behind it.       *)
C7_NoUpstreamText ==
    (Done /\ outcome.kind = "error" /\ caught.origin = "upstream" /\ caught.error.isError)
        => /\ outcome.message \in FixedMessages
           /\ ~Contains(outcome.message, caught.error.message)

(* C8.  Every route returned for preferences.circular = true has at least  *)
(* 2 waypoints, the first of type start, the last of type end, both at the *)
(* same coordinates.  (Stated for the replies of the language model in     *)
(* which every waypoint carries lat, lng, name and type.)                  *)
C8_CircularRoute ==
    (Generating /\ Done /\ outcome.kind = "route" /\ preferences.circular
        /\ reply.complete)
        => LET w == outcome.route.waypoints
           IN  /\ Len(w) >= 2
               /\ w[1].type = "start"
               /\ w[Len(w)].type = "end"
               /\ w[1].lat = w[Len(w)].lat
               /\ w[1].lng = w[Len(w)].lng

(* C9.  Every waypoint list handed to the directions stage has between 2   *)
(* and 6 entries.  (Stated for the replies of the language model in which  *)
(* every waypoint carries lat, lng, name and type.)                        *)
C9_WaypointCount ==
    (Generating /\ pc = "directions" /\ reply.complete)
        => (Len(aiWaypoints) >= 2 /\ Len(aiWaypoints) <= 6)

(* C10.  The estimatedDistance of a returned route is the directions'      *)
(* total distance in kilometres to one decimal followed by 'km': it is the *)
(* label of that distance, within 50 m of it, whatever distance the        *)
(* preferences asked for.                                                  *)
C10_LabelFromDirections ==
    (Generating /\ Done /\ outcome.kind = "route")
        => LET label == outcome.route.estimatedDistance
               meters == outcome.route.directions.distance
           IN  /\ WellFormedLabel(label)
               /\ 100 * LabelTenths(label) - meters <= 50
               /\ meters - 100 * LabelTenths(label) <= 50
               /\ \A d \in DirectionsResults :
                    d.distance = meters => label = ToFixed(d.distance, 3, 1) \o <<"k", "m">>

C10_Witness ==
    /\ Generating /\ Done /\ outcome.kind = "route"
    /\ preferences.distance = 25
    /\ outcome.route.directions = [distance |-> 9960, duration |-> Num(7200)]
    /\ outcome.route.estimatedDistance = <<"1", "0", ".", "0", "k", "m">>

-----------------------------------------------------------------------------
(* saveGeneratedWalkAction                                                 *)

\* a decimal of at most two fraction digits, in hundredths
Hundredths(x) == (IF x.neg THEN -1 ELSE 1) * x.n * Pow(10, 2 - x.e)

Saving == op = "save"

(* C14.  saveGeneratedWalkAction requires an authenticated caller: when    *)
(* the auth collaborator reports no user, the call fails with the          *)
(* login-required error and no insert is issued to the walks store.        *)
C14_SaveRequiresUser ==
    (Saving /\ pc # "auth" /\ user = NoUser)
        => /\ Done
           /\ outcome = Threw(MsgLoginSave)
           /\ calls.insert = 0
           /\ inserted = NoWalkData

C14_Witness ==
    /\ Saving /\ Done
    /\ user = NoUser
    /\ saveArg \in SaveRoutes
    /\ outcome.message = MsgLoginSave
    /\ trail = <<"auth">>

(* C15.  Every record saveGeneratedWalkAction submits for insertion agrees *)
(* with the route it was given: name = routeName, distance_km =            *)
(* parseDistance(estimatedDistance), difficulty =                          *)
(* calculateDifficulty(distance_km), notes = highlights (the empty text    *)
(* when there are none), user_id = the caller's id; and the route is not   *)
(* modified while the request runs.                                        *)
C15_WalkDataConsistent ==
    /\ [](Saving /\ calls.insert > 0
            => /\ inserted.name = saveArg.routeName
               /\ inserted.distance_km = parseDistance(saveArg.estimatedDistance)
               /\ inserted.difficulty = calculateDifficulty(inserted.distance_km)
               /\ inserted.notes = saveArg.highlights
               /\ inserted.user_id = user
               /\ user \in Users)
    /\ [][Saving => saveArg' = saveArg]_vars

C15_Witness ==
    /\ Saving /\ pc = "insert"
    /\ saveArg.estimatedDistance = <<"2", ".", "5", " ", "k", "m">>
    /\ saveArg.directions.duration = Num(1800)
    /\ inserted.distance_km = Dec(FALSE, 25, 1)
    /\ inserted.duration_minutes = 30
    /\ inserted.difficulty = "easy"
    /\ inserted.user_id = "user-123"

(* C16.  The saved duration follows one rule: a route that carries         *)
(* directions is saved with formatDuration(directions.duration), a route   *)
(* without directions with round(distance_km * 12).                        *)
C16_DurationRule ==
    (Saving /\ calls.insert > 0)
        => inserted.duration_minutes =
                IF saveArg.hasDirections
                THEN formatDuration(saveArg.directions.duration)
                ELSE RoundDiv(12 * Hundredths(inserted.distance_km), 100)

C16_Witness ==
    /\ Saving /\ pc = "insert"
    /\ ~saveArg.hasDirections
    /\ saveArg.estimatedDistance = <<"4", " ", "K", "M">>
    /\ inserted.distance_km = Dec(FALSE, 4, 0)
    /\ inserted.duration_minutes = 48

(* C17.  The outcome of saveGeneratedWalkAction mirrors the store's: when  *)
(* the insert reports an error the call throws the save-failure error and  *)
(* returns no walk; when it succeeds the call returns the record the store *)
(* returned; and route generation never throws the save-failure error.     *)
C17_StoreOutcome ==
    /\ (Saving /\ Done /\ caught.stage = "insert")
            => /\ outcome.kind = "error"
               /\ Len(outcome.message) > 1
               /\ Head(outcome.message) = Head(MsgSaveFailed(<<>>))
               /\ outcome.walk = NoWalk
    /\ (Saving /\ Done /\ calls.insert > 0 /\ caught = NoCaught)
            => /\ outcome.kind = "walk"
               /\ outcome.walk = [data |-> inserted, id |-> "walk-123"]
    /\ (Generating /\ outcome.message # <<>>)
            => Head(outcome.message) # Head(MsgSaveFailed(<<>>))

C17_Witness ==
    /\ Saving /\ Done
    /\ caught.stage = "insert"
    /\ outcome.kind = "error"
    /\ outcome.message = MsgSaveFailed(<<"duplicate key value">>)
    /\ inserted.name = <<"Quick Loop">>

-----------------------------------------------------------------------------
(* Vocabulary of the properties of walkConversion                          *)

\* the text without a trailing unit 'km' (in either case) and the white
\* space around it
StripUnit(str) ==
    LET t == Trim(ToLowerCase(str))
    IN  IF Len(t) >= 2 /\ t[Len(t) - 1] = "k" /\ t[Len(t)] = "m"
        THEN TrimEnd(SubSeq(t, 1, Len(t) - 2))
        ELSE t

\* the whole text is one decimal number: sign, digits, fraction
IsNumberText(t) ==
    LET body == IF t # <<>> /\ Head(t) \in {"-", "+"} THEN Tail(t) ELSE t
        ni == DigitRun(body)
        after == SubSeq(body, ni + 1, Len(body))
        nf == IF after # <<>> /\ Head(after) = "." THEN DigitRun(Tail(after)) ELSE 0
    IN  /\ ni + nf > 0
        /\ after = <<>> \/ (Head(after) = "." /\ Len(after) = nf + 1)

(* C11.  calculateDifficulty partitions the distances by fixed thresholds: *)
(* below 3 km (zero and negative values included) is 'easy', from 3 km to  *)
(* 6 km inclusive is 'moderate', above 6 km is 'hard'.                     *)
C11_DifficultyPartition ==
    (call.fn = "calculateDifficulty")
        => LET h == Hundredths(call.distanceKm)
           IN  call.difficulty = IF h < 300 THEN "easy"
                                 ELSE IF h <= 600 THEN "moderate"
                                 ELSE "hard"

C11_Witness ==
    /\ call.fn = "calculateDifficulty"
    /\ call.distanceKm = Dec(FALSE, 60, 1)
    /\ call.difficulty = "moderate"

(* C12.  formatDuration returns 0 for undefined and for 0 seconds, and for *)
(* every other whole number of seconds the minutes rounded half-up:        *)
(* floor((seconds + 30) / 60).                                             *)
C12_DurationRoundedHalfUp ==
    (call.fn = "formatDuration")
        => call.minutes = IF call.durationSeconds = NoNumber \/ call.durationSeconds = Num(0)
                          THEN 0
                          ELSE (call.durationSeconds[1] + 30) \div 60

C12_Witness ==
    /\ call.fn = "formatDuration"
    /\ call.durationSeconds = Num(90)
    /\ call.minutes = 2

(* C13.  parseDistance strips a trailing unit 'km' (in either case) and    *)
(* the white space around it and returns the value of the remaining        *)
(* number; for every text that is empty or is not a number followed by an  *)
(* optional 'km' it returns 0.                                             *)
C13_ParseDistance ==
    (call.fn = "parseDistance")
        => LET rest == StripUnit(call.distanceString)
           IN  IF IsNumberText(rest)
               THEN call.distance = ParseFloat(rest).value
               ELSE call.distance = Zero

-----------------------------------------------------------------------------
(* Vocabulary of the properties of RecommendationsClient                   *)

SavesInFlight == {i \in 1..Len(requests) : requests[i].kind = "save"}

(* C18.  RecommendationsClient prevents duplicate saves: at most one save  *)
(* request is in flight at a time; no save request is issued for a route   *)
(* whose save has succeeded; and after a failed save of the route shown,   *)
(* the Save button is enabled again.                                       *)
C18_NoDuplicateSaves ==
    /\ Cardinality(SavesInFlight) <= 1
    /\ \A i \in SavesInFlight : requests[i].route \notin savedRoutes
    /\ (lastSave.result = "failed" /\ SavesInFlight = {}
            /\ RoutePanelShown /\ customRoute = lastSave.route)
        => ~SaveDisabled

C18_Witness ==
    /\ RoutePanelShown
    /\ customRoute \in savedRoutes
    /\ lastSave = [route |-> customRoute, result |-> "saved"]
    /\ SaveDisabled
    /\ requests = <<>>

(* C19.  Whenever a newly generated route becomes the route shown, the     *)
(* Save button is enabled and not marked as saved, whatever save and       *)
(* generation requests came before.                                        *)
C19_SaveEnabledForNewRoute ==
    [][(customRoute' # customRoute /\ RoutePanelShown')
            => (~isSaving' /\ ~isSaved')]_vars

-----------------------------------------------------------------------------
-----------------------------------------------------------------------------
\* generateCustomRoute run on its own, on the arguments and the answers of
\* one request
Alone(loc, prefs, heard) ==
    IF heard.geocode.threw THEN generateCustomRouteCatch(heard.geocode.error, loc)
    ELSE IF heard.places.threw THEN generateCustomRouteCatch(heard.places.error, loc)
    ELSE LET made == IF heard.openai.threw THEN heard.openai
                     ELSE WaypointsFromContent(heard.openai.value,
                                               Shuffle(heard.places.value, heard.draws))
         IN  IF made.threw THEN generateCustomRouteCatch(made.error, loc)
             ELSE AfterDirections(heard.directions, made.value, prefs, loc)

(* C21.  Requests running generateCustomRoute at once do not influence one *)
(* another: whatever the interleaving, the outcome of a request is the one *)
(* generateCustomRoute gives on its own for that request's location and    *)
(* preferences, its shuffle and the answers it received, and while it runs *)
(* its consts hold its own arguments.                                      *)
C21_RequestsIndependent ==
    \A r \in 1..MaxRequests :
        /\ running[r].pc = "done" =>
                running[r].outcome =
                    Alone(running[r].location, running[r].preferences, running[r].heard)
        /\ InFlight(r) =>
                /\ frames[r].location = running[r].location
                /\ frames[r].preferences = running[r].preferences

\* two requests that ran at once, on different arguments, each returned its
\* own route
C21_Witness ==
    /\ \A r \in 1..2 : running[r].pc = "done" /\ running[r].overlapped
                            /\ running[r].outcome.kind = "route"
    /\ running[1].location # running[2].location
    /\ running[1].outcome.route.routeName # running[2].outcome.route.routeName
    /\ running[1].outcome.route.waypoints # running[2].outcome.route.waypoints

-----------------------------------------------------------------------------
StageOrder == <<"auth", "geocode", "places", "openai", "directions">>

IsPrefix(s, t) == Len(s) <= Len(t) /\ s = SubSeq(t, 1, Len(s))

(* C22.  Within one generation request the collaborators are invoked in    *)
(* the order geocoding, places search, language model, directions (after   *)
(* the login check), each at most once and each only when every earlier    *)
(* one has answered with a result; a stage that fails is the last one      *)
(* invoked, and a route is assembled only after all of them.               *)
C22_StagesInOrder ==
    Generating =>
        /\ IsPrefix(trail, StageOrder)
        /\ \A s \in Range(StageOrder) :
                calls[s] = IF s \in Range(trail) THEN 1 ELSE 0
        /\ calls.insert = 0
        /\ pc \in PipelineStages => trail[Len(trail)] = pc
        /\ "places" \in Range(trail) /\ ~Done => geocodeResult \in GeocodeResults
        /\ "openai" \in Range(trail) /\ ~Done => pois \in CandidateLists \ {<<>>}
        /\ "directions" \in Range(trail) /\ ~Done => Len(aiWaypoints) >= 2
        /\ (Done /\ caught.stage \in PipelineStages /\ caught.origin = "upstream")
                => trail[Len(trail)] = caught.stage
        /\ (Done /\ outcome.kind = "route") => trail = StageOrder

\* a request that went through every stage
C22_Witness ==
    /\ Generating /\ Done
    /\ outcome.kind = "route"
    /\ trail = StageOrder
    /\ \A s \in Range(StageOrder) : calls[s] = 1

-----------------------------------------------------------------------------
Count(list, x) == Cardinality({i \in 1..Len(list) : list[i] = x})

(* C23.  The shuffle of the candidates returns a permutation of its input: *)
(* the same length, and every candidate as often as the input holds it,    *)
(* for every list, the empty one and the one of a single candidate         *)
(* included, and for every sequence of random draws.                       *)
C23_ShufflePermutes ==
    selection.fn = "shuffle" =>
        /\ Len(selection.result) = Len(selection.list)
        /\ \A x \in Range(selection.list) \cup Range(selection.result) :
                Count(selection.result, x) = Count(selection.list, x)
        /\ Len(selection.list) <= 1 => selection.result = selection.list

\* a list of the longest length with a candidate twice, put in another order
C23_Witness ==
    /\ selection.fn = "shuffle"
    /\ Len(selection.list) = MaxShuffled
    /\ Count(selection.list, P1) = 2
    /\ selection.result # selection.list
    /\ selection.result[1] = selection.list[MaxShuffled]

-----------------------------------------------------------------------------
(* C24.  The candidate list of the prompt holds at most 20 candidates:     *)
(* entry i is candidate i of the shuffled list, for i up to the smaller of *)
(* 20 and the number of candidates, and no candidate is listed twice.      *)
C24_PromptCandidates ==
    selection.fn = "poisSummary" =>
        /\ Len(selection.result) <= 20
        /\ Len(selection.result) = Min(20, Len(selection.list))
        /\ \A i \in 1..Len(selection.result) :
                /\ selection.result[i].index = i
                /\ selection.result[i].place = selection.shuffled[i]
        /\ \A i, j \in 1..Len(selection.result) :
                selection.result[i].place = selection.result[j].place => i = j
        /\ Len(selection.shuffled) = Len(selection.list)
        /\ Range(selection.shuffled) = Range(selection.list)

\* more candidates than the prompt lists, in another order than found
C24_Witness ==
    /\ selection.fn = "poisSummary"
    /\ Len(selection.list) > 20
    /\ Len(selection.result) = 20
    /\ selection.shuffled # selection.list
    /\ selection.shuffled[21] \notin {selection.result[i].place : i \in 1..20}

-----------------------------------------------------------------------------
\* a coordinate, in units of 1e-7 degree, rounded to 6 decimal places: the
\* number in units of 1e-6 degree
Rounded6(k) == IF k < 0 THEN -ToFixedNat(-k, 7, 6) ELSE ToFixedNat(k, 7, 6)

SameRounded(place, w) ==
    /\ w.lat # NoNumber
    /\ w.lng # NoNumber
    /\ Rounded6(place.location.lat) = Rounded6(w.lat[1])
    /\ Rounded6(place.location.lng) = Rounded6(w.lng[1])

\* the placeIds of the candidates at the coordinates of a waypoint
IdsAt(w, candidates) ==
    {candidates[i].placeId : i \in {j \in 1..Len(candidates) : SameRounded(candidates[j], w)}}

(* C25.  The enrichment of a reply of at least two waypoints never fails   *)
(* and returns as many waypoints in the same order.  An intermediate       *)
(* waypoint without a placeId gets the placeId of a candidate with the     *)
(* same coordinates rounded to 6 decimal places, and stays without one     *)
(* when there is no such candidate; start and end waypoints and waypoints  *)
(* with a placeId are returned as they are.                                *)
C25_Enrichment ==
    selection.fn = "enrich" =>
        /\ ~selection.threw
        /\ Len(selection.result) = Len(selection.waypoints)
        /\ \A i \in 1..Len(selection.waypoints) :
                LET w == selection.waypoints[i]
                    ids == IdsAt(w, selection.shuffled)
                IN  IF w.type \notin {"start", "end"} /\ ~Truthy(w.placeId) /\ ids # {}
                    THEN \E id \in ids : selection.result[i] = [w EXCEPT !.placeId = id]
                    ELSE selection.result[i] = w

-----------------------------------------------------------------------------
\* the waypoints that are neither the start nor the end of the route
Intermediate(waypoints) ==
    SelectSeq(waypoints, LAMBDA w : w.type \notin {"start", "end"})

FirstTwoWords(name) == Join(Words(SubSeq(name, 1, Min(2, Len(name)))), <<" ">>)

(* C26.  For waypoints that all carry a name, the route name is the first  *)
(* two words of the name of the first waypoint that is neither a start nor *)
(* an end waypoint, followed by ' Loop (<distance>km)', and                *)
(* '<distance>km Circular Walk' when there is no such waypoint: the name   *)
(* of a start or end waypoint is never used.                               *)
C26_RouteName ==
    (/\ selection.fn = "generateRouteName"
     /\ \A i \in 1..Len(selection.waypoints) :
            selection.waypoints[i].name # UndefinedName)
        => /\ ~selection.threw
           /\ selection.result =
                IF Intermediate(selection.waypoints) = <<>>
                THEN NumberText(selection.preferences.distance) \o <<"km Circular Walk">>
                ELSE FirstTwoWords(Intermediate(selection.waypoints)[1].name)
                        \o <<" Loop (">> \o NumberText(selection.preferences.distance)
                        \o <<"km)">>

-----------------------------------------------------------------------------
LocationInvalid == Len(Trim(location)) < 2
DistanceInvalid ==
    preferences.distance < 10 * MinDistanceKm \/ preferences.distance > 10 * MaxDistanceKm

(* C27.  generateCustomRouteAction checks the feature flag, then the       *)
(* login, then the location, then the distance, and reports the first      *)
(* check that fails whatever the later ones would say: a caller who is not *)
(* logged in gets the login error, not a validation error, and no stage of *)
(* the pipeline runs for them; the pipeline starts when all checks pass.   *)
C27_GateOrder ==
    Generating =>
        /\ user = NoUser => NoPipelineCalls
        /\ Done =>
            IF env.AI_RECOMMENDATIONS_ENABLED # "true"
                THEN outcome = Threw(MsgFeatureDisabled) /\ calls.auth = 0
            ELSE IF user = NoUser
                THEN outcome = Threw(MsgLoginGenerate) /\ calls.auth = 1
            ELSE IF LocationInvalid
                THEN outcome.kind = "error" /\ NoPipelineCalls
                        /\ outcome.message \in {MsgEnterLocation, MsgValidLocation}
            ELSE IF DistanceInvalid
                THEN outcome = Threw(MsgDistanceRange) /\ NoPipelineCalls
            ELSE calls.geocode = 1 /\ outcome.message \notin ValidationMessages

\* not logged in, with a location and a distance that are both invalid
C27_Witness ==
    /\ Generating /\ Done
    /\ env.AI_RECOMMENDATIONS_ENABLED = "true"
    /\ user = NoUser
    /\ LocationInvalid
    /\ DistanceInvalid
    /\ outcome = Threw(MsgLoginGenerate)

-----------------------------------------------------------------------------
(* C28.  WalksList under deletes that overlap and all succeed: once none   *)
(* is awaited any more, no walk whose delete succeeded is on display.      *)
C28_ConcurrentDeletes ==
    (deletes = <<>> /\ ~rejected) => removed \cap Range(optimisticWalks) = {}

-----------------------------------------------------------------------------
GenerationsInFlight ==
    {i \in 1..Len(requests) : requests[i].kind = "generate"}

(* C29.  RecommendationsClient holds no stale route: the route it holds is *)
(* absent or the one the generation that completed last returned, so after *)
(* a failed generation it is absent; the route panel is not shown while a  *)
(* generation is awaited; the form data kept is that of the submission     *)
(* made last, and Show Me Another submits exactly that form data again.    *)
C29_NoStaleRoute ==
    /\ [](/\ customRoute \in {0, lastGeneration.route}
          /\ RoutePanelShown => (GenerationsInFlight = {} /\ customRoute = lastGeneration.route)
          /\ Cardinality(GenerationsInFlight) <= 1
          /\ \A i \in GenerationsInFlight : requests[i].form = lastFormData
          /\ (GenerationsInFlight = {} /\ lastGeneration.result # "none")
                => lastGeneration.form = lastFormData
          /\ lastFormData = 0 => (customRoute = 0 /\ lastGeneration = NoGeneration))
    /\ [][handleShowMeAnother =>
            /\ lastFormData' = lastFormData
            /\ lastFormData # 0
            /\ requests' = Append(requests, Request("generate", lastFormData, 0))]_vars

\* a route was shown, the next generation for the same form data failed
C29_Witness ==
    /\ generated >= 1
    /\ lastGeneration.result = "failed"
    /\ lastGeneration.form = MaxForms
    /\ customRoute = 0
    /\ requests = <<>>
    /\ mode = "custom"

-----------------------------------------------------------------------------
(* C30.  When every call a generation request awaits is answered, the      *)
(* request terminates, and with exactly one outcome: it has none while it  *)
(* runs, a route or an error when it is done, and the outcome is set by    *)
(* the step that ends the request and by no other.                         *)
C30_Terminates ==
    /\ (Generating /\ ~Done) ~> (Generating /\ Done)
    /\ [](Generating => IF Done THEN outcome.kind \in {"route", "error"}
                                ELSE outcome = Pending)
    /\ [][outcome' # outcome => (Done' \/ (~Done /\ outcome' = Pending))]_vars

\* a request that awaited every collaborator and returned a route
C30_Witness ==
    /\ Generating /\ Done
    /\ outcome.kind = "route"
    /\ calls = [ZeroCalls EXCEPT !.auth = 1, !.geocode = 1, !.places = 1,
                                 !.openai = 1, !.directions = 1]
    /\ Len(outcome.route.waypoints) = MaxReplyLen

=============================================================================
